---------------------------- MODULE Spec2Model ----------------------------
(***************************************************************************)
(* Versioned IBC state of the Eclipse IBC program.                         *)
(*                                                                         *)
(*   IbcStore   (src/state/src/ibc_store.rs)  nodes + value history        *)
(*   IbcState   (src/state/src/ibc_state.rs)  per-instruction overlay      *)
(*   IbcHandler (src/program/src/ibc_handler.rs) and with_ibc_handler      *)
(*              (src/program/src/ibc_program.rs)  instruction processing   *)
(*                                                                         *)
(* Three specifications share the definitions:                             *)
(*   SpecStore    the store alone, driven by write_node_batch calls        *)
(*   Spec         one in-memory store with IbcState overlays on it         *)
(*   SpecProgram  the persisted storage account, one instruction per step  *)
(***************************************************************************)
EXTENDS Integers, Sequences, FiniteSets, TLC

VARIABLES
    store,      \* the in-memory IbcStore: [nodes, value_history]
    overlay,    \* the IbcState borrowing `store`: [open, version, pending]
    last,       \* what the last call was and what it returned
    commits,    \* calls made so far: commits, batch writes or instructions
    committed,  \* history: the latest successful commit, [done, version, writes]
    account,    \* the persisted storage account: [initialized, store, metadata]
    clock       \* Clock sysvar: the current slot

vars == <<store, overlay, last, commits, committed, account, clock>>

---------------------------------------------------------------------------
(* Bounds *)

MaxSlot == 2                \* slots (= versions) range over 0..MaxSlot
MaxCommits == 2             \* commit() calls on one in-memory store

Versions == 0..MaxSlot

(* Option<T>: None is the empty sequence, Some(w) the one-element sequence. *)
None == <<>>
Some(w) == <<w>>
IsSome(o) == Len(o) = 1
Unwrap(o) == o[1]

EmptyMap == [x \in {} |-> x]

Max(S) == CHOOSE x \in S : \A y \in S : y <= x
Min(S) == CHOOSE x \in S : \A y \in S : x <= y

---------------------------------------------------------------------------
(* Paths.  A key is <<path kind, first id, second id>>; ids not used by a   *)
(* path kind are 0.                                                        *)

PortPath(p) == <<"ports", p, 0>>
AllModulesPath == <<"internal/allModules", 0, 0>>
StateInitializedPath == <<"internal/stateInitialized", 0, 0>>
ClientStatePath(c) == <<"clientState", c, 0>>
ClientConsensusStatePath(c, h) == <<"consensusStates", c, h>>
ConsensusHeightsPath(c) == <<"internal/consensusHeights", c, 0>>
ClientUpdateTimePath(c, h) == <<"internal/updateTime", c, h>>
ClientUpdateHeightPath(c, h) == <<"internal/updateHeight", c, h>>
ConnectionPath(conn) == <<"connections", conn, 0>>
ClientConnectionPath(c) == <<"clients/connections", c, 0>>
ChannelEndPath(p, chan) == <<"channelEnds", p, chan>>
SeqSendPath(p, chan) == <<"nextSequenceSend", p, chan>>
SeqRecvPath(p, chan) == <<"nextSequenceRecv", p, chan>>
SeqAckPath(p, chan) == <<"nextSequenceAck", p, chan>>
CommitmentPath(p, chan, seq) == <<"commitments", p, chan, seq>>
ReceiptPath(p, chan, seq) == <<"receipts", p, chan, seq>>
AckPath(p, chan, seq) == <<"acks", p, chan, seq>>

PathKinds == <<"ports", "internal/allModules", "internal/stateInitialized",
               "clientState", "consensusStates", "internal/consensusHeights",
               "internal/updateTime", "internal/updateHeight",
               "connections", "clients/connections", "channelEnds",
               "nextSequenceSend", "nextSequenceRecv", "nextSequenceAck",
               "commitments", "receipts", "acks">>

(* jmt::KeyHash::with::<Sha256>(key.to_string()): the batch's BTreeMap is    *)
(* ordered by (version, key hash).  The digests are a fixed total order on  *)
(* the keys that has nothing to do with the paths' structure; this is one.  *)
KeyHash(k) ==
    LET kind == CHOOSE i \in 1..Len(PathKinds) : PathKinds[i] = k[1]
    IN  (IF Len(k) = 4 THEN k[4] * 10000 ELSE 0) + (k[3] * 1000) + (k[2] * 100) + kind

---------------------------------------------------------------------------
(* IbcStore *)

EmptyStore == [nodes |-> EmptyMap, value_history |-> EmptyMap]

(* get_value_option taking the first entry of the range, not the last. *)
get_value_option_first(s, max_version, key_hash) ==
    IF key_hash \notin DOMAIN s.value_history THEN None
    ELSE LET version_history == s.value_history[key_hash]
             range == {v \in DOMAIN version_history : v <= max_version}
         IN  IF range = {} THEN None ELSE version_history[Min(range)]

(* version_history.range(..=max_version).next_back().and_then(|(_, v)| v)   *)
get_value_option(s, max_version, key_hash) ==
    IF key_hash \notin DOMAIN s.value_history
    THEN None
    ELSE LET version_history == s.value_history[key_hash]
             range == {v \in DOMAIN version_history : v <= max_version}
         IN  IF range = {} THEN None ELSE version_history[Max(range)]

(* The first entry of node_batch.values() in BTreeMap order. *)
FirstEntry(entries) ==
    CHOOSE e \in entries : \A f \in entries :
        \/ e[1] < f[1]
        \/ e[1] = f[1] /\ KeyHash(e[2]) <= KeyHash(f[2])

(* The loop over node_batch.values(): entries are installed one at a time,  *)
(* and the first stale one ends the loop with the earlier ones installed.   *)
RECURSIVE WriteValues(_, _, _)
WriteValues(value_history, values, todo) ==
    IF todo = {}
    THEN [ok |-> TRUE, value_history |-> value_history]
    ELSE LET e == FirstEntry(todo)
             version == e[1]
             key_hash == e[2]
             versions == IF key_hash \in DOMAIN value_history
                         THEN value_history[key_hash] ELSE EmptyMap
         IN  IF DOMAIN versions # {} /\ version < Max(DOMAIN versions)
             THEN [ok |-> FALSE, value_history |-> value_history]
             ELSE WriteValues(
                     (key_hash :> ((version :> values[e]) @@ versions)) @@ value_history,
                     values, todo \ {e})

(* write_node_batch reporting success whatever the value loop did. *)
write_node_batch_accepting(s, node_batch) ==
    LET nodes == node_batch.nodes @@ s.nodes
        r == WriteValues(s.value_history, node_batch.values, DOMAIN node_batch.values)
    IN  [ok |-> TRUE, store |-> [nodes |-> nodes, value_history |-> r.value_history]]

(* write_node_batch: the nodes are inserted first, then the values.         *)
(* node_batch = [nodes: version -> tree, values: <<version, key>> -> Option] *)
write_node_batch(s, node_batch) ==
    LET nodes == node_batch.nodes @@ s.nodes
        r == WriteValues(s.value_history, node_batch.values, DOMAIN node_batch.values)
    IN  [ok |-> r.ok, store |-> [nodes |-> nodes, value_history |-> r.value_history]]


---------------------------------------------------------------------------
(* Public keys and module ids.  A Pubkey is PUBKEY_BYTES bytes and is kept  *)
(* as the number its bytes spell, most significant byte first; a ModuleId   *)
(* is a string, kept as the sequence of its characters.                     *)

PUBKEY_BYTES == 2           \* bytes of a public key (32 in solana_sdk)

Byte == 2^8

HexDigits == <<"0", "1", "2", "3", "4", "5", "6", "7",
               "8", "9", "a", "b", "c", "d", "e", "f">>
UpperHexDigits == <<"0", "1", "2", "3", "4", "5", "6", "7",
                    "8", "9", "A", "B", "C", "D", "E", "F">>

(* hex::encode: two lowercase digits for every byte, high nibble first. *)
RECURSIVE hex_encode(_)
hex_encode(bytes) ==
    IF bytes = <<>> THEN <<>>
    ELSE <<HexDigits[(Head(bytes) \div 16) + 1], HexDigits[(Head(bytes) % 16) + 1]>>
         \o hex_encode(Tail(bytes))

(* The value of a hexadecimal digit of either case, None for another        *)
(* character.                                                               *)
hex_val(c) ==
    IF \E i \in 1..16 : HexDigits[i] = c
    THEN Some((CHOOSE i \in 1..16 : HexDigits[i] = c) - 1)
    ELSE IF \E i \in 1..16 : UpperHexDigits[i] = c
    THEN Some((CHOOSE i \in 1..16 : UpperHexDigits[i] = c) - 1)
    ELSE None

(* hex::decode: an even number of hexadecimal digits of either case. *)
hex_decode(digits) ==
    IF Len(digits) % 2 = 1
    THEN [ok |-> FALSE, err |-> "OddLength", bytes |-> <<>>]
    ELSE IF \E i \in 1..Len(digits) : ~IsSome(hex_val(digits[i]))
    THEN [ok |-> FALSE, err |-> "InvalidHexCharacter", bytes |-> <<>>]
    ELSE [ok |-> TRUE, err |-> "",
          bytes |-> [i \in 1..(Len(digits) \div 2) |->
                        16 * Unwrap(hex_val(digits[2 * i - 1]))
                        + Unwrap(hex_val(digits[2 * i]))]]

(* Pubkey::as_ref: the bytes of the key *)
as_ref(pubkey) ==
    [i \in 1..PUBKEY_BYTES |-> (pubkey \div (Byte ^ (PUBKEY_BYTES - i))) % Byte]

RECURSIVE from_bytes(_)
from_bytes(bytes) ==
    IF bytes = <<>> THEN 0
    ELSE Byte * from_bytes(SubSeq(bytes, 1, Len(bytes) - 1)) + bytes[Len(bytes)]

(* Pubkey::try_from(Vec<u8>): the vector must have the length of a key. *)
Pubkey_try_from(bytes) ==
    IF Len(bytes) # PUBKEY_BYTES
    THEN [ok |-> FALSE, err |-> "Failed to decode pubkey from bytes", pubkey |-> 0]
    ELSE [ok |-> TRUE, err |-> "", pubkey |-> from_bytes(bytes)]

(* module_id_of_pubkey that writes the key in decimal. *)
module_id_of_pubkey_decimal(pubkey) ==
    <<HexDigits[((pubkey \div 10) % 10) + 1], HexDigits[(pubkey % 10) + 1]>>

(* module_id_of_pubkey: ModuleId::new accepts a non-empty alphanumeric      *)
(* string, which the hex digits of a key are.                               *)
module_id_of_pubkey(pubkey) == hex_encode(as_ref(pubkey))

(* pubkey_of_module_id *)
pubkey_of_module_id(module_id) ==
    LET decoded == hex_decode(module_id)
    IN  IF ~decoded.ok THEN [ok |-> FALSE, err |-> decoded.err, pubkey |-> 0]
        ELSE Pubkey_try_from(decoded.bytes)

(* The order of ModuleId, that of its string: character by character, a     *)
(* prefix before its extensions.                                            *)
RECURSIVE ModuleIdLeq(_, _)
ModuleIdLeq(a, b) ==
    IF a = <<>> THEN TRUE
    ELSE IF b = <<>> THEN FALSE
    ELSE IF Head(a) = Head(b) THEN ModuleIdLeq(Tail(a), Tail(b))
    ELSE Unwrap(hex_val(Head(a))) < Unwrap(hex_val(Head(b)))

RECURSIVE SortedModuleIds(_)
SortedModuleIds(S) ==
    IF S = {} THEN <<>>
    ELSE LET first == CHOOSE x \in S : \A y \in S : ModuleIdLeq(x, y)
         IN  <<first>> \o SortedModuleIds(S \ {first})

---------------------------------------------------------------------------
(* KnownProto encode / decode (src/known-proto/src/lib.rs).  A set-valued   *)
(* record (ConsensusHeights, AllModuleIds) is written as a repeated field,  *)
(* i.e. a sequence, and collected back into a set on decode; the other      *)
(* values used here are written as they are.                                *)

SetValuedKinds == {"internal/allModules", "internal/consensusHeights",
                   "clients/connections"}

RECURSIVE SortedSeq(_)
SortedSeq(S) == IF S = {} THEN <<>> ELSE <<Min(S)>> \o SortedSeq(S \ {Min(S)})

SeqRange(q) == {q[i] : i \in 1..Len(q)}

encode(key, value) ==
    IF key[1] = "internal/allModules" THEN SortedModuleIds(value)
    ELSE IF key[1] \in SetValuedKinds THEN SortedSeq(value) ELSE value
decode(key, bytes) == IF key[1] \in SetValuedKinds THEN SeqRange(bytes) ELSE bytes

(* K::Value::default() for the paths `update` is used with. *)
Default(key) == {}

---------------------------------------------------------------------------
(* Sha256Jmt over the store (the jmt crate, called from ibc_state.rs).      *)
(* The tree under the root node of a version is kept as its leaves:         *)
(* nodes[v] = the key -> value map reachable from NodeKey(v, empty path).   *)

NullTree == EmptyMap

ApplyValueSet(tree, value_set) ==
    LET put == {k \in DOMAIN value_set : IsSome(value_set[k])}
        del == {k \in DOMAIN value_set : ~IsSome(value_set[k])}
    IN  [k \in (DOMAIN tree \cup put) \ del |->
            IF k \in put THEN Unwrap(value_set[k]) ELSE tree[k]]

(* state_jmt.get(key_hash, version): the tree reads the value history.      *)
jmt_get(s, key_hash, version) == get_value_option(s, version, key_hash)

(* state_jmt.put_value_set(value_set, version).  The tree cache starts from *)
(* the root of version - 1 (from a null root when version = 0).  The batch  *)
(* holds the new nodes, all keyed with `version`, and one value entry       *)
(* (version, key) per key of the set.  With an empty set only the root is   *)
(* frozen.  The revisions of the crate differ on a root of version - 1 that *)
(* the store does not hold: one reports a missing node, the other puts a    *)
(* null root in its place; `synth_root` says which one the build has.       *)
put_value_set(s, value_set, version, synth_root) ==
    LET values == [e \in {<<version, k>> : k \in DOMAIN value_set} |-> value_set[e[2]]]
        has_root == version = 0 \/ (version - 1) \in DOMAIN s.nodes
        root == IF version # 0 /\ (version - 1) \in DOMAIN s.nodes
                THEN s.nodes[version - 1]
                ELSE NullTree
    IN  IF ~has_root /\ ~synth_root
        THEN [ok |-> FALSE, node_batch |-> [nodes |-> EmptyMap, values |-> EmptyMap]]
        ELSE IF DOMAIN value_set = {}
        THEN [ok |-> TRUE,
              node_batch |->
                [nodes |-> IF version = 0 THEN (0 :> NullTree)
                           ELSE IF has_root THEN EmptyMap
                           ELSE ((version - 1) :> NullTree),
                 values |-> values]]
        ELSE [ok |-> TRUE,
              node_batch |->
                [nodes |-> (version :> ApplyValueSet(root, value_set)),
                 values |-> values]]

---------------------------------------------------------------------------
(* IbcState: an overlay st = [open, version, pending] over the store s.     *)

(* IbcState::new *)
IbcState_new(slot) == [open |-> TRUE, version |-> slot, pending |-> EmptyMap]

Closed == [open |-> FALSE, version |-> 0, pending |-> EmptyMap]

(* get_with_decode with the two lookups swapped: the store is read first   *)
(* and the pending changes only for a key the store does not hold.         *)
get_with_decode_store_first(s, st, key) ==
    LET owned_value == jmt_get(s, key, st.version)
    IN  IF IsSome(owned_value)
        THEN Some(decode(key, Unwrap(owned_value)))
        ELSE IF key \in DOMAIN st.pending /\ IsSome(st.pending[key])
        THEN Some(decode(key, Unwrap(st.pending[key])))
        ELSE None

(* IbcState::get_with_decode, as used by get *)
get_with_decode(s, st, key) ==
    IF key \in DOMAIN st.pending
    THEN IF IsSome(st.pending[key])
         THEN Some(decode(key, Unwrap(st.pending[key])))
         ELSE None
    ELSE LET owned_value == jmt_get(s, key, st.version)
         IN  IF IsSome(owned_value)
             THEN Some(decode(key, Unwrap(owned_value)))
             ELSE None

get(s, st, key) == get_with_decode(s, st, key)

(* IbcState::get_raw: get_with_decode with the raw (prost) decoder, which   *)
(* keeps the record as it is written.                                       *)
get_raw(s, st, key) ==
    IF key \in DOMAIN st.pending
    THEN st.pending[key]
    ELSE jmt_get(s, key, st.version)

(* IbcStore::find_key_version: the greatest version <= max_version at which *)
(* the key was written.                                                     *)
find_key_version(s, max_version, key_hash) ==
    IF key_hash \notin DOMAIN s.value_history
    THEN None
    ELSE LET range == {v \in DOMAIN s.value_history[key_hash] : v <= max_version}
         IN  IF range = {} THEN None ELSE Some(Max(range))

(* IbcState::get_root_option: the root hash of the tree of a version, kept  *)
(* as the tree it is the digest of.                                         *)
get_root_option(s, slot) ==
    IF slot \in DOMAIN s.nodes THEN Some(s.nodes[slot]) ELSE None

(* IbcState::get_proof: the existence proof of the key in the tree of the   *)
(* version it was last written at.  An ICS-23 existence proof is a leaf and *)
(* the steps that hash it up to a root: it is kept as                       *)
(* <<root it hashes up to, key, value>>.                                    *)
get_proof(s, st, key) ==
    LET key_version == find_key_version(s, st.version, key)
    IN  IF ~IsSome(key_version)
        THEN [ok |-> FALSE, proof |-> None]
        ELSE LET v == Unwrap(key_version)
             IN  IF v \in DOMAIN s.nodes /\ key \in DOMAIN s.nodes[v]
                 THEN [ok |-> TRUE,
                       proof |-> Some(<<s.nodes[v], key, s.nodes[v][key]>>)]
                 ELSE [ok |-> FALSE, proof |-> None]

(* verify_membership that accepts the prefix of the host chain only. *)
verify_membership_with_prefix(prefix, proof, root, path, value) ==
    /\ prefix = "ibc"
    /\ Len(proof) = 3
    /\ proof[2] = path
    /\ proof[3] = value
    /\ proof[1] = root

(* EclipseClientState::verify_membership: the proof must be an existence    *)
(* proof of the path string with the value that hashes up to the root; the  *)
(* key path is the path alone, the prefix is not used.                      *)
verify_membership(prefix, proof, root, path, value) ==
    /\ Len(proof) = 3
    /\ proof[2] = path
    /\ proof[3] = value
    /\ proof[1] = root

(* EclipseClientState::verify_non_membership: the proof must be a           *)
(* non-existence proof of the path string, kept as <<root it hashes up to,  *)
(* key>>, that hashes up to the root.                                       *)
verify_non_membership(prefix, proof, root, path) ==
    /\ Len(proof) = 2
    /\ proof[2] = path
    /\ proof[1] = root

(* IbcState::set *)
set(st, key, value) ==
    [st EXCEPT !.pending = (key :> Some(encode(key, value))) @@ @]

(* IbcState::remove *)
remove(st, key) ==
    [st EXCEPT !.pending = (key :> None) @@ @]

(* IbcState::update: load-or-default, apply f, set.  The closure f is a     *)
(* function on the values of the key.                                       *)
update(s, st, key, f) ==
    LET loaded == get(s, st, key)
        value == IF IsSome(loaded) THEN Unwrap(loaded) ELSE Default(key)
    IN  set(st, key, f[value])

(* commit that takes pending_changes only once the batch is written *)
commit_keeping_pending(s, st, synth_root) ==
    LET pending_changes == st.pending
        taken == [st EXCEPT !.pending = EmptyMap]
        put == put_value_set(s, pending_changes, st.version, synth_root)
    IN  IF ~put.ok
        THEN [ok |-> FALSE, store |-> s, state |-> st]
        ELSE LET w == write_node_batch(s, put.node_batch)
             IN  [ok |-> w.ok, store |-> w.store,
                  state |-> IF w.ok THEN taken ELSE st]

(* IbcState::commit: pending_changes is taken first, whatever follows. *)
commit(s, st, synth_root) ==
    LET pending_changes == st.pending
        taken == [st EXCEPT !.pending = EmptyMap]
        put == put_value_set(s, pending_changes, st.version, synth_root)
    IN  IF ~put.ok
        THEN [ok |-> FALSE, store |-> s, state |-> taken]
        ELSE LET w == write_node_batch(s, put.node_batch)
             IN  [ok |-> w.ok, store |-> w.store, state |-> taken]


---------------------------------------------------------------------------
(* Spec: one in-memory IbcStore and an IbcState overlay that borrows it.    *)
(* Every call of the overlay's API is a step; IbcState::new drops the old   *)
(* overlay and opens another one on the same store, at any slot.  A run     *)
(* ends with its last commit: after it the store is only read.              *)

Pubkeys == {1, 2}
ModuleIds == {module_id_of_pubkey(pubkey) : pubkey \in Pubkeys}

(* The typed paths the overlay of Spec works on: a ModuleId-valued path     *)
(* that is set, and a set-valued path that is updated.                      *)
SetKeys == {PortPath(1)}
UpdateKeys == {AllModulesPath}
ApiKeys == SetKeys \cup UpdateKeys

NoKey == <<"", 0, 0>>

Call(op, key, arg, res, ok) ==
    [op |-> op, key |-> key, arg |-> arg, res |-> res, ok |-> ok]

NoCall == Call("none", NoKey, 0, None, TRUE)

NoCommit == [done |-> FALSE, version |-> 0, writes |-> EmptyMap]

InitAccount == [initialized |-> FALSE, store |-> EmptyStore,
                metadata |-> [client_id_counter |-> 0,
                              connection_id_counter |-> 0,
                              channel_id_counter |-> 0]]

Init ==
    /\ store = EmptyStore
    /\ overlay = Closed
    /\ last = NoCall
    /\ commits = 0
    /\ committed = NoCommit
    /\ account = InitAccount
    /\ clock = 0

(* IbcState::new(&store, slot) *)
New(slot) ==
    /\ commits < MaxCommits
    /\ overlay' = IbcState_new(slot)
    /\ last' = Call("new", NoKey, slot, None, TRUE)
    /\ UNCHANGED <<store, commits, committed, account, clock>>

(* state.get(&key) *)
Get(key) ==
    /\ overlay.open
    /\ last' = Call("get", key, 0, get(store, overlay, key), TRUE)
    /\ UNCHANGED <<store, overlay, commits, committed, account, clock>>

(* state.get_raw(&key) *)
GetRaw(key) ==
    /\ overlay.open
    /\ last' = Call("get_raw", key, 0, get_raw(store, overlay, key), TRUE)
    /\ UNCHANGED <<store, overlay, commits, committed, account, clock>>

(* state.get_proof(&key) *)
GetProof(key) ==
    /\ overlay.open
    /\ LET r == get_proof(store, overlay, key)
       IN  last' = Call("get_proof", key, 0, r.proof, r.ok)
    /\ UNCHANGED <<store, overlay, commits, committed, account, clock>>

(* set writing through to the store at the overlay's version. *)
SetWriteThrough(key, value) ==
    /\ overlay.open
    /\ commits < MaxCommits
    /\ overlay' = set(overlay, key, value)
    /\ store' = [store EXCEPT !.value_history =
                    (key :> (overlay.version :> Some(encode(key, value))))
                        @@ store.value_history]
    /\ last' = Call("set", key, 0, Some(value), TRUE)
    /\ UNCHANGED <<commits, committed, account, clock>>

(* state.set(&key, value) *)
Set(key, value) ==
    /\ overlay.open
    /\ commits < MaxCommits
    /\ overlay' = set(overlay, key, value)
    /\ last' = Call("set", key, 0, Some(value), TRUE)
    /\ UNCHANGED <<store, commits, committed, account, clock>>

(* state.remove(&key) *)
Remove(key) ==
    /\ overlay.open
    /\ commits < MaxCommits
    /\ overlay' = remove(overlay, key)
    /\ last' = Call("remove", key, 0, None, TRUE)
    /\ UNCHANGED <<store, commits, committed, account, clock>>

(* state.update(&key, |ids| { ids.modules.insert(m); }) *)
Update(key, m) ==
    /\ overlay.open
    /\ commits < MaxCommits
    /\ LET f == [modules \in SUBSET ModuleIds |-> modules \cup {m}]
       IN  overlay' = update(store, overlay, key, f)
    /\ last' = Call("update", key, 0, Some(m), TRUE)
    /\ UNCHANGED <<store, commits, committed, account, clock>>

(* state.commit().  `committed` remembers the latest commit that succeeded. *)
Commit(synth_root) ==
    /\ overlay.open
    /\ commits < MaxCommits
    /\ LET r == commit(store, overlay, synth_root)
       IN  /\ store' = r.store
           /\ overlay' = r.state
           /\ last' = Call("commit", NoKey, overlay.version, None, r.ok)
           /\ committed' = IF r.ok
                           THEN [done |-> TRUE, version |-> overlay.version,
                                 writes |-> overlay.pending]
                           ELSE committed
    /\ commits' = commits + 1
    /\ UNCHANGED <<account, clock>>

Next ==
    \/ \E slot \in Versions : New(slot)
    \/ \E key \in ApiKeys : Get(key)
    \/ \E key \in ApiKeys : GetRaw(key)
    \/ \E key \in ApiKeys : GetProof(key)
    \/ \E key \in SetKeys, m \in ModuleIds : Set(key, m)
    \/ \E key \in SetKeys : Remove(key)
    \/ \E key \in UpdateKeys : Update(key, module_id_of_pubkey(1))
    \/ \E synth_root \in BOOLEAN : Commit(synth_root)

Spec == Init /\ [][Next]_vars

---------------------------------------------------------------------------
(* SpecStore: the IbcStore alone, written through TreeWriter and read       *)
(* through TreeReader with batches of any shape.                            *)

MaxWrites == 3              \* write_node_batch calls on one store

Bytes == {1}

Records == {None} \cup {Some(b) : b \in Bytes}

(* The batches handed to write_node_batch, shaped as the tree makes them:   *)
(* the root node of one version and a record for some keys at that version. *)
NodeBatches ==
    UNION {{[nodes |-> (v :> NullTree),
             values |-> [e \in {v} \X K |-> f[e[2]]]]
              : f \in [K -> Records]}
              : v \in Versions, K \in (SUBSET ApiKeys) \ {{}}}

(* store.write_node_batch(&node_batch) *)
WriteNodeBatch(node_batch) ==
    /\ commits < MaxWrites
    /\ LET r == write_node_batch(store, node_batch)
       IN  /\ store' = r.store
           /\ last' = Call("write_node_batch", NoKey, 0, Some(DOMAIN node_batch.values), r.ok)
    /\ commits' = commits + 1
    /\ UNCHANGED <<overlay, committed, account, clock>>

(* store.get_value_option(max_version, key_hash) *)
GetValueOption(max_version, key_hash) ==
    /\ last' = Call("get_value_option", key_hash, max_version,
                    get_value_option(store, max_version, key_hash), TRUE)
    /\ UNCHANGED <<store, overlay, commits, committed, account, clock>>

NextStore ==
    \/ \E node_batch \in NodeBatches : WriteNodeBatch(node_batch)
    \/ \E max_version \in Versions, key_hash \in ApiKeys :
          GetValueOption(max_version, key_hash)

SpecStore == Init /\ [][NextStore]_vars

---------------------------------------------------------------------------
(* IbcHandler: the overlay of one instruction, the metadata borrowed from   *)
(* the account data, and the slot of the Clock.                             *)
(* h = [state, metadata, current_slot, module_by_id]; the operations that   *)
(* can fail return [ok, h].                                                 *)

ClientIds == {0}
Heights == {1, 2}
ClientHeights == {1, 2, 3}  \* the heights a consensus state can be stored at

Unit == 0

(* u64: a 64-bit unsigned integer is kept as its four 16-bit limbs, the    *)
(* most significant first, so that the arithmetic keeps its width.          *)
Limb == 2^16
U64_MAX == <<Limb - 1, Limb - 1, Limb - 1, Limb - 1>>
u64(n) == <<0, 0, n \div Limb, n % Limb>>

(* u64::checked_add: None when the sum does not fit in 64 bits. *)
checked_add(x, y) ==
    LET s4 == x[4] + y[4]
        s3 == x[3] + y[3] + (s4 \div Limb)
        s2 == x[2] + y[2] + (s3 \div Limb)
        s1 == x[1] + y[1] + (s2 \div Limb)
    IN  IF s1 >= Limb THEN None
        ELSE Some(<<s1, s2 % Limb, s3 % Limb, s4 % Limb>>)

(* u64::checked_sub: None when the difference is negative. *)
checked_sub(x, y) ==
    LET d4 == x[4] - y[4]
        d3 == x[3] - y[3] - (IF d4 < 0 THEN 1 ELSE 0)
        d2 == x[2] - y[2] - (IF d3 < 0 THEN 1 ELSE 0)
        d1 == x[1] - y[1] - (IF d2 < 0 THEN 1 ELSE 0)
    IN  IF d1 < 0 THEN None
        ELSE Some(<<d1, (d2 + Limb) % Limb, (d3 + Limb) % Limb, (d4 + Limb) % Limb>>)

(* Result<T, ClientError> of the chain functions *)
ChainOk(val) == [ok |-> TRUE, err |-> "", val |-> val]
ChainErr(err) == [ok |-> FALSE, err |-> err, val |-> None]

REVISION_NUMBER == 0

(* Height::new: a height of revision height 0 is refused. *)
Height_new(revision_number, revision_height) ==
    IF revision_height = u64(0)
    THEN ChainErr("InvalidHeight")
    ELSE ChainOk([revision_number |-> revision_number,
                  revision_height |-> revision_height])

(* eclipse_chain::height_of_slot: clock.slot starts at 0, so 1 is added for *)
(* the height.                                                              *)
height_of_slot(slot) ==
    LET revision_height == checked_add(slot, u64(1))
    IN  IF ~IsSome(revision_height)
        THEN ChainErr("InvalidHeight")
        ELSE Height_new(REVISION_NUMBER, Unwrap(revision_height))

(* eclipse_chain::slot_of_height *)
slot_of_height_any_revision(height) ==
    LET slot == checked_sub(height.revision_height, u64(1))
    IN  IF IsSome(slot) THEN ChainOk(Unwrap(slot)) ELSE ChainErr("InvalidHeight")

slot_of_height(height) ==
    IF height.revision_number # REVISION_NUMBER
    THEN ChainErr("InvalidHeight")
    ELSE LET slot == checked_sub(height.revision_height, u64(1))
         IN  IF IsSome(slot) THEN ChainOk(Unwrap(slot)) ELSE ChainErr("InvalidHeight")

(* ValidationContext::host_height *)
host_height(h) == height_of_slot(u64(h.current_slot))

(* ValidationContext::host_timestamp: the time of the Clock, which is kept  *)
(* as the slot it belongs to.                                               *)
host_timestamp(h) == h.current_slot

(* IbcHandler::new: every module id of AllModules is decoded into the       *)
(* program id of its module; one that does not decode fails the             *)
(* construction.  module_by_id is kept as the set of its keys.              *)
IbcHandler_new(s, metadata, slot) ==
    LET state == IbcState_new(slot)
        all_module_ids == get(s, state, AllModulesPath)
        modules == IF IsSome(all_module_ids)
                   THEN Unwrap(all_module_ids) ELSE Default(AllModulesPath)
    IN  [ok |-> \A module_id \in modules : pubkey_of_module_id(module_id).ok,
         h |-> [state |-> state, metadata |-> metadata, current_slot |-> slot,
                module_by_id |-> modules]]

(* ValidationContext::client_state *)
client_state(s, h, client_id) == get(s, h.state, ClientStatePath(client_id))

(* Router::lookup_module_by_port *)
lookup_module_by_port(s, h, port_id) == get(s, h.state, PortPath(port_id))

(* ExecutionContext::store_client_state *)
store_client_state(s, h, client_id, cs) ==
    [h EXCEPT !.state = set(@, ClientStatePath(client_id), cs)]

(* store_consensus_state that leaves ConsensusHeights as it is. *)
store_consensus_state_only(s, h, client_id, height, consensus_state) ==
    [h EXCEPT !.state = set(@, ClientConsensusStatePath(client_id, height),
                            consensus_state)]

(* ExecutionContext::store_consensus_state: the height is inserted into     *)
(* ConsensusHeights(client_id), then the consensus state is set.            *)
store_consensus_state(s, h, client_id, height, consensus_state) ==
    LET insert == [heights \in SUBSET ClientHeights |-> heights \cup {height}]
        st1 == update(s, h.state, ConsensusHeightsPath(client_id), insert)
    IN  [h EXCEPT !.state = set(st1, ClientConsensusStatePath(client_id, height),
                                consensus_state)]

(* ExecutionContext::increase_client_counter *)
increase_client_counter(h) ==
    [h EXCEPT !.metadata.client_id_counter = @ + 1]

(* ExecutionContext::store_update_time *)
store_update_time(s, h, client_id, height, timestamp) ==
    [h EXCEPT !.state = set(@, ClientUpdateTimePath(client_id, height), timestamp)]

(* ExecutionContext::store_update_height *)
store_update_height(s, h, client_id, height, at_host_height) ==
    [h EXCEPT !.state = set(@, ClientUpdateHeightPath(client_id, height), at_host_height)]

(* bind_port without the lookup: the port is taken from whoever holds it. *)
bind_port_unchecked(s, h, port_id, pubkey) ==
    LET module_id == module_id_of_pubkey(pubkey)
        insert == [modules \in SUBSET ModuleIds |-> modules \cup {module_id}]
        st1 == set(h.state, PortPath(port_id), module_id)
    IN  [ok |-> TRUE, err |-> "",
         h |-> [h EXCEPT !.state = update(s, st1, AllModulesPath, insert)]]

(* IbcHandler::bind_port *)
bind_port(s, h, port_id, pubkey) ==
    LET module_id == module_id_of_pubkey(pubkey)
        insert == [modules \in SUBSET ModuleIds |-> modules \cup {module_id}]
    IN  IF ~IsSome(lookup_module_by_port(s, h, port_id))
        THEN LET st1 == set(h.state, PortPath(port_id), module_id)
             IN  [ok |-> TRUE, err |-> "",
                  h |-> [h EXCEPT !.state = update(s, st1, AllModulesPath, insert)]]
        ELSE [ok |-> FALSE, err |-> "ImplementationSpecific", h |-> h]

(* release_port that lets any caller release a bound port. *)
release_port_any_caller(s, h, port_id, pubkey) ==
    LET module_id == module_id_of_pubkey(pubkey)
        curr_module_id == lookup_module_by_port(s, h, port_id)
        remove_id == [modules \in SUBSET ModuleIds |-> modules \ {module_id}]
    IN  IF IsSome(curr_module_id)
        THEN LET st1 == remove(h.state, PortPath(port_id))
             IN  [ok |-> TRUE, err |-> "",
                  h |-> [h EXCEPT !.state = update(s, st1, AllModulesPath, remove_id)]]
        ELSE [ok |-> FALSE, err |-> "UnknownPort", h |-> h]

(* IbcHandler::release_port *)
release_port(s, h, port_id, pubkey) ==
    LET module_id == module_id_of_pubkey(pubkey)
        curr_module_id == lookup_module_by_port(s, h, port_id)
        remove_id == [modules \in SUBSET ModuleIds |-> modules \ {module_id}]
    IN  IF ~IsSome(curr_module_id)
        THEN [ok |-> FALSE, err |-> "UnknownPort", h |-> h]
        ELSE IF Unwrap(curr_module_id) = module_id
        THEN LET st1 == remove(h.state, PortPath(port_id))
             IN  [ok |-> TRUE, err |-> "",
                  h |-> [h EXCEPT !.state = update(s, st1, AllModulesPath, remove_id)]]
        ELSE [ok |-> FALSE, err |-> "ImplementationSpecific", h |-> h]

(* EclipseHeader { height, commitment_root, timestamp } *)
EclipseHeader(height, commitment_root, timestamp) ==
    [height |-> height, commitment_root |-> commitment_root, timestamp |-> timestamp]

(* impl From<EclipseHeader> for EclipseConsensusState: the commitment root  *)
(* and the timestamp of the header, without its height.                     *)
EclipseConsensusState_from(header) ==
    [commitment_root |-> header.commitment_root, timestamp |-> header.timestamp]

(* EclipseClientState { chain_id, latest_header, frozen_height } *)
EclipseClientState(chain_id, latest_header, frozen_height) ==
    [chain_id |-> chain_id, latest_header |-> latest_header,
     frozen_height |-> frozen_height]

(* The headers of the counterparty chain: the chain has one block at each   *)
(* height, whose root and time are its own.                                 *)
HeaderAt(height) == EclipseHeader(height, 10 + height, 20 + height)

(* The client states a message can carry. *)
ClientStates ==
    {EclipseClientState("eclipse", HeaderAt(height), frozen_height) :
        height \in Heights, frozen_height \in {None, Some(1)}}

(* EclipseClientState::latest_height *)
latest_height(cs) == cs.latest_header.height

(* EclipseClientState::validate_proof_height accepting any height up to one *)
(* above the latest.                                                        *)
validate_proof_height_off_by_one(cs, proof_height) ==
    IF proof_height <= latest_height(cs) + 1
    THEN [ok |-> TRUE, err |-> ""]
    ELSE [ok |-> FALSE, err |-> "InvalidProofHeight"]

(* EclipseClientState::validate_proof_height *)
validate_proof_height(cs, proof_height) ==
    IF proof_height <= latest_height(cs)
    THEN [ok |-> TRUE, err |-> ""]
    ELSE [ok |-> FALSE, err |-> "InvalidProofHeight"]

(* confirm_not_frozen that lets a frozen client through. *)
confirm_not_frozen_always_ok(cs) == [ok |-> TRUE, err |-> ""]

(* EclipseClientState::confirm_not_frozen *)
confirm_not_frozen(cs) ==
    IF cs.frozen_height = None
    THEN [ok |-> TRUE, err |-> ""]
    ELSE [ok |-> FALSE, err |-> "ClientFrozen"]

(* EclipseClientState::verify_client_message for UpdateKind::UpdateClient   *)
(* taking a header at the latest height.                                    *)
verify_client_message_equal_height(cs, header_height) ==
    IF latest_height(cs) > header_height
    THEN [ok |-> FALSE, err |-> "LowHeaderHeight"]
    ELSE [ok |-> TRUE, err |-> ""]

(* EclipseClientState::verify_client_message for UpdateKind::UpdateClient   *)
verify_client_message(cs, header_height) ==
    IF latest_height(cs) >= header_height
    THEN [ok |-> FALSE, err |-> "LowHeaderHeight"]
    ELSE [ok |-> TRUE, err |-> ""]

(* update_state that starts the new client state from the default one      *)
(* instead of the stored one.                                               *)
update_state_from_default(s, h, client_id, header) ==
    LET new_client_state == EclipseClientState("", header, None)
        new_consensus_state == EclipseConsensusState_from(header)
        h1 == store_update_time(s, h, client_id, latest_height(new_client_state),
                                host_timestamp(h))
        h2 == store_update_height(s, h1, client_id, latest_height(new_client_state),
                                  host_height(h).val)
        h3 == store_consensus_state(s, h2, client_id, latest_height(new_client_state),
                                    new_consensus_state)
    IN  store_client_state(s, h3, client_id, new_client_state)

(* EclipseClientState::update_state: the new client state takes the header  *)
(* and keeps the chain id and the frozen height of the stored one; the      *)
(* update time and height, the consensus state made from the header and the *)
(* client state are stored, in this order.                                  *)
update_state(s, h, client_id, header) ==
    LET cs == Unwrap(client_state(s, h, client_id))
        new_client_state == EclipseClientState(cs.chain_id, header, cs.frozen_height)
        new_consensus_state == EclipseConsensusState_from(header)
        h1 == store_update_time(s, h, client_id, latest_height(new_client_state),
                                host_timestamp(h))
        h2 == store_update_height(s, h1, client_id, latest_height(new_client_state),
                                  host_height(h).val)
        h3 == store_consensus_state(s, h2, client_id, latest_height(new_client_state),
                                    new_consensus_state)
    IN  store_client_state(s, h3, client_id, new_client_state)

(* EclipseClientState::verify_upgrade_client: the upgraded client state     *)
(* must be above the latest height, and both proofs must verify.            *)
verify_upgrade_client(cs, upgraded_client_state, proofs_ok) ==
    IF latest_height(cs) >= latest_height(upgraded_client_state)
    THEN [ok |-> FALSE, err |-> "LowUpgradeHeight"]
    ELSE IF ~proofs_ok
    THEN [ok |-> FALSE, err |-> "Ics23Verification"]
    ELSE [ok |-> TRUE, err |-> ""]

(* dispatch of MsgCreateClient: the client takes the id of the counter; the *)
(* client state of the message and its first consensus state are stored,    *)
(* the counter is increased, and the update time and height are stored.     *)
(* The consensus state of the message is the one of the client state's      *)
(* header.                                                                  *)
create_client(s, h, cs) ==
    LET client_id == h.metadata.client_id_counter
        height == latest_height(cs)
        h1 == store_client_state(s, h, client_id, cs)
        h2 == store_consensus_state(s, h1, client_id, height,
                                    EclipseConsensusState_from(cs.latest_header))
        h3 == increase_client_counter(h2)
        h4 == store_update_time(s, h3, client_id, height, host_timestamp(h))
    IN  [ok |-> TRUE, err |-> "",
         h |-> store_update_height(s, h4, client_id, height,
                                   host_height(h).val)]

(* update_client that takes the header without verify_client_message. *)
update_client_unverified(s, h, client_id, header) ==
    LET cs == client_state(s, h, client_id)
    IN  IF ~IsSome(cs) THEN [ok |-> FALSE, err |-> "ClientStateNotFound", h |-> h]
        ELSE IF ~confirm_not_frozen(Unwrap(cs)).ok
        THEN [ok |-> FALSE, err |-> "ClientFrozen", h |-> h]
        ELSE [ok |-> TRUE, err |-> "",
              h |-> update_state(s, h, client_id, header)]

(* dispatch of MsgUpdateClient: the client must exist and not be frozen,    *)
(* verify_client_message refuses a header at or below the latest height,    *)
(* and update_state stores the new states.                                  *)
update_client(s, h, client_id, header) ==
    LET cs == client_state(s, h, client_id)
    IN  IF ~IsSome(cs) THEN [ok |-> FALSE, err |-> "ClientStateNotFound", h |-> h]
        ELSE IF ~confirm_not_frozen(Unwrap(cs)).ok
        THEN [ok |-> FALSE, err |-> "ClientFrozen", h |-> h]
        ELSE IF ~verify_client_message(Unwrap(cs), header.height).ok
        THEN [ok |-> FALSE, err |-> "LowHeaderHeight", h |-> h]
        ELSE [ok |-> TRUE, err |-> "",
              h |-> update_state(s, h, client_id, header)]

(* dispatch of MsgUpgradeClient: the client must exist and not be frozen,   *)
(* its latest consensus state must be on record and not expired,            *)
(* verify_upgrade_client must accept, and the upgraded client state and     *)
(* consensus state are stored (update_state_with_upgrade_client).           *)
upgrade_client(s, h, client_id, upgraded, expired, proofs_ok) ==
    LET cs == client_state(s, h, client_id)
    IN  IF ~IsSome(cs) THEN [ok |-> FALSE, err |-> "ClientStateNotFound", h |-> h]
        ELSE IF ~confirm_not_frozen(Unwrap(cs)).ok
        THEN [ok |-> FALSE, err |-> "ClientFrozen", h |-> h]
        ELSE IF ~IsSome(get(s, h.state,
                    ClientConsensusStatePath(client_id, latest_height(Unwrap(cs)))))
        THEN [ok |-> FALSE, err |-> "ConsensusStateNotFound", h |-> h]
        ELSE IF expired
        THEN [ok |-> FALSE, err |-> "HeaderNotWithinTrustPeriod", h |-> h]
        ELSE IF ~verify_upgrade_client(Unwrap(cs), upgraded, proofs_ok).ok
        THEN [ok |-> FALSE,
              err |-> verify_upgrade_client(Unwrap(cs), upgraded, proofs_ok).err,
              h |-> h]
        ELSE LET h1 == store_client_state(s, h, client_id, upgraded)
             IN  [ok |-> TRUE, err |-> "",
                  h |-> store_consensus_state(s, h1, client_id,
                            latest_height(upgraded),
                            EclipseConsensusState_from(upgraded.latest_header))]

---------------------------------------------------------------------------
(* Connections, channels and packets: the ValidationContext and             *)
(* ExecutionContext methods of IbcHandler, and the handlers `dispatch` runs *)
(* on them for each message of the envelope.  A handler validates first    *)
(* and executes after; the operations return [ok, err, h].                  *)

ConnIds == {0, 1}
ChanIds == {0, 1}
Seqs == {1}
Orders == {"Unordered", "Ordered"}

Ok(h) == [ok |-> TRUE, err |-> "", h |-> h]
Err(err, h) == [ok |-> FALSE, err |-> err, h |-> h]

(* A panic inside the handler: the instruction does not return, and nothing *)
(* of the handler is kept.                                                  *)
Panic(h) == [ok |-> FALSE, err |-> "panic", h |-> h]

(* ValidationContext::consensus_state *)
consensus_state(s, h, client_id, height) ==
    get(s, h.state, ClientConsensusStatePath(client_id, height))

(* next_consensus_state whose range starts at the height itself. *)
next_consensus_state_from_height(s, h, client_id, height) ==
    LET consensus_heights == get(s, h.state, ConsensusHeightsPath(client_id))
    IN  IF ~IsSome(consensus_heights) THEN [ok |-> TRUE, err |-> "", val |-> None]
        ELSE LET range == {x \in Unwrap(consensus_heights) : x >= height}
             IN  IF range = {} THEN [ok |-> TRUE, err |-> "", val |-> None]
                 ELSE LET found == consensus_state(s, h, client_id, Min(range))
                      IN  IF ~IsSome(found)
                          THEN [ok |-> FALSE, err |-> "ConsensusStateNotFound",
                                val |-> None]
                          ELSE [ok |-> TRUE, err |-> "", val |-> found]

(* ValidationContext::next_consensus_state: the first height of             *)
(* heights.range((Excluded(height), Unbounded)), and the consensus state    *)
(* stored at it, which must be there.                                       *)
next_consensus_state(s, h, client_id, height) ==
    LET consensus_heights == get(s, h.state, ConsensusHeightsPath(client_id))
    IN  IF ~IsSome(consensus_heights) THEN [ok |-> TRUE, err |-> "", val |-> None]
        ELSE LET range == {x \in Unwrap(consensus_heights) : x > height}
             IN  IF range = {} THEN [ok |-> TRUE, err |-> "", val |-> None]
                 ELSE LET found == consensus_state(s, h, client_id, Min(range))
                      IN  IF ~IsSome(found)
                          THEN [ok |-> FALSE, err |-> "ConsensusStateNotFound",
                                val |-> None]
                          ELSE [ok |-> TRUE, err |-> "", val |-> found]

(* ValidationContext::prev_consensus_state: the last height of              *)
(* heights.range(..height), and the consensus state stored at it.           *)
prev_consensus_state(s, h, client_id, height) ==
    LET consensus_heights == get(s, h.state, ConsensusHeightsPath(client_id))
    IN  IF ~IsSome(consensus_heights) THEN [ok |-> TRUE, err |-> "", val |-> None]
        ELSE LET range == {x \in Unwrap(consensus_heights) : x < height}
             IN  IF range = {} THEN [ok |-> TRUE, err |-> "", val |-> None]
                 ELSE LET found == consensus_state(s, h, client_id, Max(range))
                      IN  IF ~IsSome(found)
                          THEN [ok |-> FALSE, err |-> "ConsensusStateNotFound",
                                val |-> None]
                          ELSE [ok |-> TRUE, err |-> "", val |-> found]

(* ValidationContext::connection_end *)
connection_end(s, h, conn_id) == get(s, h.state, ConnectionPath(conn_id))

(* ValidationContext::channel_end *)
channel_end(s, h, port_id, chan_id) == get(s, h.state, ChannelEndPath(port_id, chan_id))

(* ValidationContext::get_next_sequence_send *)
get_next_sequence_send(s, h, port_id, chan_id) ==
    get(s, h.state, SeqSendPath(port_id, chan_id))

(* ValidationContext::get_next_sequence_recv *)
get_next_sequence_recv(s, h, port_id, chan_id) ==
    get(s, h.state, SeqRecvPath(port_id, chan_id))

(* ValidationContext::get_next_sequence_ack *)
get_next_sequence_ack(s, h, port_id, chan_id) ==
    get(s, h.state, SeqAckPath(port_id, chan_id))

(* ValidationContext::get_packet_commitment *)
get_packet_commitment(s, h, port_id, chan_id, seq) ==
    get(s, h.state, CommitmentPath(port_id, chan_id, seq))

(* ValidationContext::get_packet_receipt *)
get_packet_receipt(s, h, port_id, chan_id, seq) ==
    get(s, h.state, ReceiptPath(port_id, chan_id, seq))

(* ValidationContext::get_packet_acknowledgement *)
get_packet_acknowledgement(s, h, port_id, chan_id, seq) ==
    get(s, h.state, AckPath(port_id, chan_id, seq))

(* Router::has_route *)
has_route(h, module_id) == module_id \in h.module_by_id

(* ExecutionContext::store_connection *)
store_connection(s, h, conn_id, connection_end_) ==
    [h EXCEPT !.state = set(@, ConnectionPath(conn_id), connection_end_)]

(* ExecutionContext::store_connection_to_client *)
store_connection_to_client(s, h, client_id, conn_id) ==
    LET insert == [connections \in SUBSET ConnIds |-> connections \cup {conn_id}]
    IN  [h EXCEPT !.state = update(s, @, ClientConnectionPath(client_id), insert)]

(* increase_connection_counter that leaves the counter as it is. *)
increase_connection_counter_skipped(h) == h

(* ExecutionContext::increase_connection_counter *)
increase_connection_counter(h) ==
    [h EXCEPT !.metadata.connection_id_counter = @ + 1]

(* ExecutionContext::store_channel *)
store_channel(s, h, port_id, chan_id, channel_end_) ==
    [h EXCEPT !.state = set(@, ChannelEndPath(port_id, chan_id), channel_end_)]

(* ExecutionContext::increase_channel_counter *)
increase_channel_counter(h) ==
    [h EXCEPT !.metadata.channel_id_counter = @ + 1]

(* ExecutionContext::store_next_sequence_send *)
store_next_sequence_send(s, h, port_id, chan_id, seq) ==
    [h EXCEPT !.state = set(@, SeqSendPath(port_id, chan_id), seq)]

(* ExecutionContext::store_next_sequence_recv *)
store_next_sequence_recv(s, h, port_id, chan_id, seq) ==
    [h EXCEPT !.state = set(@, SeqRecvPath(port_id, chan_id), seq)]

(* ExecutionContext::store_next_sequence_ack *)
store_next_sequence_ack(s, h, port_id, chan_id, seq) ==
    [h EXCEPT !.state = set(@, SeqAckPath(port_id, chan_id), seq)]

(* ExecutionContext::store_packet_commitment *)
store_packet_commitment(s, h, port_id, chan_id, seq, commitment) ==
    [h EXCEPT !.state = set(@, CommitmentPath(port_id, chan_id, seq), commitment)]

(* delete_packet_commitment that leaves the commitment where it is. *)
delete_packet_commitment_kept(s, h, port_id, chan_id, seq) == h

(* ExecutionContext::delete_packet_commitment *)
delete_packet_commitment(s, h, port_id, chan_id, seq) ==
    [h EXCEPT !.state = remove(@, CommitmentPath(port_id, chan_id, seq))]

(* ExecutionContext::store_packet_receipt *)
store_packet_receipt(s, h, port_id, chan_id, seq) ==
    [h EXCEPT !.state = set(@, ReceiptPath(port_id, chan_id, seq), Unit)]

(* store_packet_acknowledgement that writes nothing. *)
store_packet_acknowledgement_dropped(s, h, port_id, chan_id, seq, ack_commitment) == h

(* ExecutionContext::store_packet_acknowledgement *)
store_packet_acknowledgement(s, h, port_id, chan_id, seq, ack_commitment) ==
    [h EXCEPT !.state = set(@, AckPath(port_id, chan_id, seq), ack_commitment)]

(* ConnectionEnd and ChannelEnd, with the fields the handlers decide on. *)
ConnectionEnd(state, client_id) == [state |-> state, client_id |-> client_id]
ChannelEnd(state, ordering, conn_id) ==
    [state |-> state, ordering |-> ordering, connection_hops |-> <<conn_id>>]

(* What a proof-carrying handler does with the client of the connection:    *)
(* the client state must be there and not frozen, the proof height must     *)
(* pass validate_proof_height, the consensus state of the proof height must *)
(* be on record, and verify_membership must accept the proof.               *)
verify_proofs(s, h, client_id, proof_height, proofs_ok) ==
    LET cs == client_state(s, h, client_id)
    IN  IF ~IsSome(cs) THEN Err("ClientStateNotFound", h)
        ELSE IF ~confirm_not_frozen(Unwrap(cs)).ok THEN Err("ClientFrozen", h)
        ELSE IF ~validate_proof_height(Unwrap(cs), proof_height).ok
        THEN Err("InvalidProofHeight", h)
        ELSE IF ~IsSome(consensus_state(s, h, client_id, proof_height))
        THEN Err("ConsensusStateNotFound", h)
        ELSE IF ~proofs_ok THEN Err("Ics23Verification", h)
        ELSE Ok(h)

(* dispatch of MsgConnectionOpenInit *)
conn_open_init(s, h, client_id) ==
    IF ~IsSome(client_state(s, h, client_id)) THEN Err("ClientStateNotFound", h)
    ELSE LET conn_id == h.metadata.connection_id_counter
             h1 == increase_connection_counter(h)
             h2 == store_connection_to_client(s, h1, client_id, conn_id)
         IN  Ok(store_connection(s, h2, conn_id, ConnectionEnd("Init", client_id)))

(* dispatch of MsgConnectionOpenTry *)
conn_open_try(s, h, client_id, proof_height, proofs_ok) ==
    LET v == verify_proofs(s, h, client_id, proof_height, proofs_ok)
    IN  IF ~v.ok THEN v
        ELSE LET conn_id == h.metadata.connection_id_counter
                 h1 == increase_connection_counter(h)
                 h2 == store_connection_to_client(s, h1, client_id, conn_id)
             IN  Ok(store_connection(s, h2, conn_id,
                                     ConnectionEnd("TryOpen", client_id)))

(* conn_open_finish that takes a connection end in any state. *)
conn_open_finish_any_state(s, h, conn_id, from, proof_height, proofs_ok) ==
    LET conn_end == connection_end(s, h, conn_id)
    IN  IF ~IsSome(conn_end) THEN Err("ConnectionNotFound", h)
        ELSE LET v == verify_proofs(s, h, Unwrap(conn_end).client_id,
                                    proof_height, proofs_ok)
             IN  IF ~v.ok THEN v
                 ELSE Ok(store_connection(s, h, conn_id,
                            ConnectionEnd("Open", Unwrap(conn_end).client_id)))

(* dispatch of MsgConnectionOpenAck (from = "Init") and of                  *)
(* MsgConnectionOpenConfirm (from = "TryOpen")                              *)
conn_open_finish(s, h, conn_id, from, proof_height, proofs_ok) ==
    LET conn_end == connection_end(s, h, conn_id)
    IN  IF ~IsSome(conn_end) THEN Err("ConnectionNotFound", h)
        ELSE IF Unwrap(conn_end).state # from THEN Err("ConnectionMismatch", h)
        ELSE LET v == verify_proofs(s, h, Unwrap(conn_end).client_id,
                                    proof_height, proofs_ok)
             IN  IF ~v.ok THEN v
                 ELSE Ok(store_connection(s, h, conn_id,
                            ConnectionEnd("Open", Unwrap(conn_end).client_id)))

(* dispatch of a channel or packet message: the port's module is looked up  *)
(* and must have a route.                                                   *)
route(s, h, port_id) ==
    LET module_id == lookup_module_by_port(s, h, port_id)
    IN  IF ~IsSome(module_id) THEN Err("PortNotFound", h)
        ELSE IF ~has_route(h, Unwrap(module_id)) THEN Err("RouteNotFound", h)
        ELSE Ok(h)

(* The connection of a channel must be there and Open. *)
connection_open(s, h, conn_id) ==
    LET conn_end == connection_end(s, h, conn_id)
    IN  IF ~IsSome(conn_end) THEN Err("ConnectionNotFound", h)
        ELSE IF Unwrap(conn_end).state # "Open" THEN Err("ConnectionNotOpen", h)
        ELSE Ok(h)

(* The channel of a new id: the end is stored, the counter increased and    *)
(* the three sequences set to 1.                                            *)
new_channel(s, h, port_id, channel_end_) ==
    LET chan_id == h.metadata.channel_id_counter
        h1 == store_channel(s, h, port_id, chan_id, channel_end_)
        h2 == increase_channel_counter(h1)
        h3 == store_next_sequence_send(s, h2, port_id, chan_id, 1)
        h4 == store_next_sequence_recv(s, h3, port_id, chan_id, 1)
    IN  store_next_sequence_ack(s, h4, port_id, chan_id, 1)

(* dispatch of MsgChannelOpenInit *)
chan_open_init(s, h, port_id, conn_id, ordering, module_ok) ==
    IF ~route(s, h, port_id).ok THEN route(s, h, port_id)
    ELSE IF ~IsSome(connection_end(s, h, conn_id)) THEN Err("ConnectionNotFound", h)
    ELSE IF ~module_ok THEN Err("ModuleError", h)
    ELSE Ok(new_channel(s, h, port_id, ChannelEnd("Init", ordering, conn_id)))

(* dispatch of MsgChannelOpenTry *)
chan_open_try(s, h, port_id, conn_id, ordering, proof_height, proofs_ok, module_ok) ==
    IF ~route(s, h, port_id).ok THEN route(s, h, port_id)
    ELSE IF ~connection_open(s, h, conn_id).ok THEN connection_open(s, h, conn_id)
    ELSE LET v == verify_proofs(s, h, Unwrap(connection_end(s, h, conn_id)).client_id,
                                proof_height, proofs_ok)
         IN  IF ~v.ok THEN v
             ELSE IF ~module_ok THEN Err("ModuleError", h)
             ELSE Ok(new_channel(s, h, port_id,
                                 ChannelEnd("TryOpen", ordering, conn_id)))

(* A channel handshake step that takes any state of the channel end. *)
chan_step_any_state(s, h, port_id, chan_id, from, to, proof_height, proofs_ok, module_ok) ==
    IF ~route(s, h, port_id).ok THEN route(s, h, port_id)
    ELSE LET chan_end == channel_end(s, h, port_id, chan_id)
         IN  IF ~IsSome(chan_end) THEN Err("ChannelNotFound", h)
             ELSE IF ~module_ok THEN Err("ModuleError", h)
             ELSE Ok(store_channel(s, h, port_id, chan_id,
                                   [Unwrap(chan_end) EXCEPT !.state = to]))

(* dispatch of MsgChannelOpenAck (from {Init} to Open), MsgChannelOpenConfirm *)
(* (from {TryOpen} to Open), MsgChannelCloseInit and MsgChannelCloseConfirm  *)
(* (from any state but Closed to Closed; CloseInit carries no proof).        *)
chan_step(s, h, port_id, chan_id, from, to, proof_height, proofs_ok, module_ok) ==
    IF ~route(s, h, port_id).ok THEN route(s, h, port_id)
    ELSE LET chan_end == channel_end(s, h, port_id, chan_id)
         IN  IF ~IsSome(chan_end) THEN Err("ChannelNotFound", h)
             ELSE IF Unwrap(chan_end).state \notin from
             THEN Err(IF to = "Closed" THEN "ChannelClosed" ELSE "InvalidChannelState", h)
             ELSE LET conn_id == Unwrap(chan_end).connection_hops[1]
                      c == connection_open(s, h, conn_id)
                      v == IF proof_height = 0 THEN Ok(h)
                           ELSE verify_proofs(s, h,
                                    Unwrap(connection_end(s, h, conn_id)).client_id,
                                    proof_height, proofs_ok)
                  IN  IF ~c.ok THEN c
                      ELSE IF ~v.ok THEN v
                      ELSE IF ~module_ok THEN Err("ModuleError", h)
                      ELSE Ok(store_channel(s, h, port_id, chan_id,
                                            [Unwrap(chan_end) EXCEPT !.state = to]))

(* The checks the packet handlers share: route, channel Open, connection    *)
(* Open.                                                                    *)
packet_channel(s, h, port_id, chan_id) ==
    IF ~route(s, h, port_id).ok THEN route(s, h, port_id)
    ELSE LET chan_end == channel_end(s, h, port_id, chan_id)
         IN  IF ~IsSome(chan_end) THEN Err("ChannelNotFound", h)
             ELSE IF Unwrap(chan_end).state # "Open" THEN Err("InvalidChannelState", h)
             ELSE connection_open(s, h, Unwrap(chan_end).connection_hops[1])

(* SolanaModule::on_recv_packet_execute: the module is invoked and its       *)
(* return data read with unwrap and expect, so a module that fails or       *)
(* returns no data panics.  h is the handler once the acknowledgement the   *)
(* module returns is stored.                                                *)
on_recv_packet_execute(h, module_ok) ==
    IF ~module_ok THEN Panic(h) ELSE Ok(h)

(* dispatch of MsgRecvPacket.  validate: the proof of the commitment, then  *)
(* on an ordered channel the sequence must not be ahead of SeqRecv, and a   *)
(* packet that is to be received must have no acknowledgement yet.          *)
(* execute: a packet already received is left alone; otherwise the module   *)
(* is called, the receipt is stored (unordered) or SeqRecv increased        *)
(* (ordered), and the acknowledgement is stored.                            *)
recv_packet(s, h, port_id, chan_id, seq, proof_height, proofs_ok, module_ok) ==
    LET pc == packet_channel(s, h, port_id, chan_id)
    IN  IF ~pc.ok THEN pc
        ELSE
        LET chan_end == Unwrap(channel_end(s, h, port_id, chan_id))
            conn_end == Unwrap(connection_end(s, h, chan_end.connection_hops[1]))
            v == verify_proofs(s, h, conn_end.client_id, proof_height, proofs_ok)
            next_seq_recv == get_next_sequence_recv(s, h, port_id, chan_id)
            ack_exists == IsSome(get_packet_acknowledgement(s, h, port_id, chan_id, seq))
            received == IF chan_end.ordering = "Unordered"
                        THEN IsSome(get_packet_receipt(s, h, port_id, chan_id, seq))
                        ELSE seq < Unwrap(next_seq_recv)
            h1 == IF chan_end.ordering = "Unordered"
                  THEN store_packet_receipt(s, h, port_id, chan_id, seq)
                  ELSE store_next_sequence_recv(s, h, port_id, chan_id,
                                                Unwrap(next_seq_recv) + 1)
        IN  IF ~v.ok THEN v
            ELSE IF chan_end.ordering = "Ordered" /\ ~IsSome(next_seq_recv)
            THEN Err("MissingNextRecvSeq", h)
            ELSE IF chan_end.ordering = "Ordered" /\ seq > Unwrap(next_seq_recv)
            THEN Err("InvalidPacketSequence", h)
            ELSE IF (chan_end.ordering = "Unordered" \/ seq = Unwrap(next_seq_recv))
                    /\ ack_exists
            THEN Err("AcknowledgementExists", h)
            ELSE IF received THEN Ok(h)
            ELSE on_recv_packet_execute(
                     store_packet_acknowledgement(s, h1, port_id, chan_id, seq, seq),
                     module_ok)

(* dispatch of MsgAcknowledgement (timeout = FALSE) and of MsgTimeout       *)
(* (timeout = TRUE): a packet whose commitment is gone is left alone;       *)
(* otherwise the proof is verified, the module called and the commitment    *)
(* deleted; on an ordered channel an acknowledgement must come in sequence  *)
(* and moves SeqAck on, and a timeout closes the channel.                   *)
ack_or_timeout(s, h, port_id, chan_id, seq, timeout, proof_height, proofs_ok, module_ok) ==
    LET pc == packet_channel(s, h, port_id, chan_id)
    IN  IF ~pc.ok THEN pc
        ELSE IF ~IsSome(get_packet_commitment(s, h, port_id, chan_id, seq)) THEN Ok(h)
        ELSE
        LET chan_end == Unwrap(channel_end(s, h, port_id, chan_id))
            conn_end == Unwrap(connection_end(s, h, chan_end.connection_hops[1]))
            v == verify_proofs(s, h, conn_end.client_id, proof_height, proofs_ok)
            next_seq_ack == get_next_sequence_ack(s, h, port_id, chan_id)
            h1 == delete_packet_commitment(s, h, port_id, chan_id, seq)
        IN  IF ~timeout /\ chan_end.ordering = "Ordered"
               /\ (~IsSome(next_seq_ack) \/ seq # Unwrap(next_seq_ack))
            THEN Err("InvalidPacketSequence", h)
            ELSE IF ~v.ok THEN v
            ELSE IF ~module_ok THEN Err("ModuleError", h)
            ELSE IF chan_end.ordering = "Unordered" THEN Ok(h1)
            ELSE IF timeout
            THEN Ok(store_channel(s, h1, port_id, chan_id,
                                  [chan_end EXCEPT !.state = "Closed"]))
            ELSE Ok(store_next_sequence_ack(s, h1, port_id, chan_id,
                                            Unwrap(next_seq_ack) + 1))

(* Send.  No message of the envelope sends a packet: the logic above the   *)
(* handler does, on a channel that is not Closed and with the sequence      *)
(* SeqSend holds, by storing the packet commitment and increasing SeqSend.  *)
send_packet(s, h, port_id, chan_id, seq) ==
    LET chan_end == channel_end(s, h, port_id, chan_id)
        next_seq_send == get_next_sequence_send(s, h, port_id, chan_id)
    IN  IF ~IsSome(chan_end) THEN Err("ChannelNotFound", h)
        ELSE IF Unwrap(chan_end).state = "Closed" THEN Err("ChannelClosed", h)
        ELSE IF ~IsSome(next_seq_send) THEN Err("MissingNextSendSeq", h)
        ELSE IF seq # Unwrap(next_seq_send) THEN Err("InvalidPacketSequence", h)
        ELSE Ok(store_packet_commitment(s,
                    store_next_sequence_send(s, h, port_id, chan_id, seq + 1),
                    port_id, chan_id, seq, seq))

---------------------------------------------------------------------------
(* SpecProgram: the storage account and the Clock; every step is one whole  *)
(* instruction of process_instruction, or the Clock moving to the next      *)
(* slot.  `commits` counts the instructions of the run.                     *)

MaxInstr == 4               \* instructions in one run

PortIds == {1, 2}

(* The closures process_instruction hands to with_ibc_handler, kept as the  *)
(* instruction they were made from.                                         *)
call(f, s, h) ==
    CASE f.kind = "bind_port" -> bind_port(s, h, f.port_id, f.payer_key)
      [] f.kind = "release_port" -> release_port(s, h, f.port_id, f.payer_key)
      [] f.kind = "create_client" -> create_client(s, h, f.client_state)
      [] f.kind = "update_client" -> update_client(s, h, f.client_id, f.header)
      [] f.kind = "upgrade_client" ->
            upgrade_client(s, h, f.client_id, f.client_state, f.expired, f.proofs_ok)
      [] f.kind = "conn_open_init" -> conn_open_init(s, h, f.client_id)
      [] f.kind = "conn_open_try" ->
            conn_open_try(s, h, f.client_id, f.proof_height, f.proofs_ok)
      [] f.kind = "conn_open_finish" ->
            conn_open_finish(s, h, f.conn_id, f.from, f.proof_height, f.proofs_ok)
      [] f.kind = "chan_open_init" ->
            chan_open_init(s, h, f.port_id, f.conn_id, f.ordering, f.module_ok)
      [] f.kind = "chan_open_try" ->
            chan_open_try(s, h, f.port_id, f.conn_id, f.ordering, f.proof_height,
                          f.proofs_ok, f.module_ok)
      [] f.kind = "chan_step" ->
            chan_step(s, h, f.port_id, f.chan_id, f.from, f.to, f.proof_height,
                      f.proofs_ok, f.module_ok)
      [] f.kind = "recv_packet" ->
            recv_packet(s, h, f.port_id, f.chan_id, f.seq, f.proof_height,
                        f.proofs_ok, f.module_ok)
      [] f.kind = "ack_or_timeout" ->
            ack_or_timeout(s, h, f.port_id, f.chan_id, f.seq, f.timeout,
                           f.proof_height, f.proofs_ok, f.module_ok)
      [] f.kind = "send_packet" -> send_packet(s, h, f.port_id, f.chan_id, f.seq)

(* InstructionError: the variants the program returns, Custom with its     *)
(* code; NoError stands for Ok(()), and Panicked for an instruction that    *)
(* did not return.                                                          *)
ROUTER_ERR_CODE == 151
PORT_ERR_CODE == 152
STORAGE_ERR_CODE == 153

InstructionError(variant) == [variant |-> variant, code |-> 0]
Custom(code) == [variant |-> "Custom", code |-> code]
NoError == InstructionError("Ok")
Panicked == InstructionError("panic")

(* The closure with its map_err: an error of dispatch becomes               *)
(* Custom(ROUTER_ERR_CODE), an error of bind_port or release_port           *)
(* Custom(PORT_ERR_CODE).                                                   *)
closure(f, s, h) ==
    CHOOSE mapped \in
        { [ok |-> r.ok, err |-> r.err, h |-> r.h,
           code |-> IF r.ok THEN NoError
                    ELSE IF r.err = "panic" THEN Panicked
                    ELSE IF f.kind \in {"bind_port", "release_port"}
                    THEN Custom(PORT_ERR_CODE)
                    ELSE Custom(ROUTER_ERR_CODE)] : r \in {call(f, s, h)} } : TRUE

(* The tail of with_ibc_handler going on to commit and to write the account *)
(* when the closure or the commit has failed.                               *)
commit_and_write_anyway(acc, r, synth_root) ==
    LET c == commit(acc.store, r.h.state, synth_root)
    IN  [ok |-> r.ok /\ c.ok,
         stage |-> IF ~r.ok THEN Some("handler")
                   ELSE IF ~c.ok THEN Some("commit") ELSE None,
         err |-> r.err,
         code |-> IF ~r.ok THEN r.code
                  ELSE IF ~c.ok THEN Custom(STORAGE_ERR_CODE) ELSE NoError,
         account |-> [initialized |-> TRUE, store |-> c.store,
                      metadata |-> r.h.metadata]]

(* The tail of with_ibc_handler: `f(&mut ibc_handler)?`, then               *)
(* `ibc_handler.commit()...?`, then write_to_account.  r is what the        *)
(* closure returned.                                                        *)
commit_and_write(acc, r, synth_root) ==
    IF ~r.ok
    THEN [ok |-> FALSE, stage |-> Some("handler"), err |-> r.err, code |-> r.code,
          account |-> acc]
    ELSE LET c == commit(acc.store, r.h.state, synth_root)
         IN  IF ~c.ok
             THEN [ok |-> FALSE, stage |-> Some("commit"), err |-> "",
                   code |-> Custom(STORAGE_ERR_CODE), account |-> acc]
             ELSE [ok |-> TRUE, stage |-> None, err |-> "", code |-> NoError,
                   account |-> [initialized |-> TRUE, store |-> c.store,
                                metadata |-> r.h.metadata]]

(* What the runtime does with the data of the storage account during one    *)
(* instruction: data_ok says that the bytes of the account deserialize into *)
(* IbcAccountData, write_err is the error of serializing the new data       *)
(* ("InvalidAccountData") or of set_data (the account cannot take the new   *)
(* length), and "" when the data is written.                                *)
Hosts == [data_ok : BOOLEAN, write_err : {"", "InvalidAccountData", "InvalidRealloc"}]
HostOk == [data_ok |-> TRUE, write_err |-> ""]

(* IbcAccountData::read_from_account *)
read_from_account(acc, host) ==
    IF host.data_ok
    THEN [ok |-> TRUE, code |-> NoError]
    ELSE [ok |-> FALSE, code |-> InstructionError("InvalidAccountData")]

(* IbcAccountData::write_to_account *)
write_to_account(host) ==
    IF host.write_err = ""
    THEN [ok |-> TRUE, code |-> NoError]
    ELSE [ok |-> FALSE, code |-> InstructionError(host.write_err)]

(* with_ibc_handler on a host: the account must be the program's storage    *)
(* account; its data is read, the closure runs on a fresh handler, the      *)
(* overlay is committed and the account data written back; an error at any  *)
(* point returns and leaves the account as it was.                          *)
with_ibc_handler_on(acc, slot, synth_root, f, host) ==
    IF ~acc.initialized
    THEN [ok |-> FALSE, stage |-> Some("account"), err |-> "",
          code |-> InstructionError("InvalidAccountOwner"), account |-> acc]
    ELSE IF ~read_from_account(acc, host).ok
    THEN [ok |-> FALSE, stage |-> Some("read"), err |-> "",
          code |-> read_from_account(acc, host).code, account |-> acc]
    ELSE IF ~IbcHandler_new(acc.store, acc.metadata, slot).ok
    THEN [ok |-> FALSE, stage |-> Some("new"), err |-> "",
          code |-> InstructionError("InvalidAccountData"), account |-> acc]
    ELSE LET ibc_handler == IbcHandler_new(acc.store, acc.metadata, slot).h
         IN  CHOOSE written \in
                 UNION { { IF r.ok /\ ~write_to_account(host).ok
                           THEN [ok |-> FALSE, stage |-> Some("write"), err |-> "",
                                 code |-> write_to_account(host).code, account |-> acc]
                           ELSE r :
                           r \in {commit_and_write(acc, returned, synth_root)} } :
                         returned \in {closure(f, acc.store, ibc_handler)} } : TRUE

(* with_ibc_handler when the account data deserializes and can be written *)
with_ibc_handler(acc, slot, synth_root, f) ==
    with_ibc_handler_on(acc, slot, synth_root, f, HostOk)

(* init_storage_account committing the default store without the marker *)
init_storage_account_unmarked(acc, slot, synth_root) ==
    IF acc.initialized
    THEN [ok |-> FALSE, stage |-> Some("account"), err |-> "",
          code |-> Custom(0), account |-> acc]
    ELSE LET c == commit(EmptyStore, IbcState_new(slot), synth_root)
         IN  IF ~c.ok
             THEN [ok |-> FALSE, stage |-> Some("commit"), err |-> "",
                   code |-> Custom(STORAGE_ERR_CODE), account |-> acc]
             ELSE [ok |-> TRUE, stage |-> None, err |-> "", code |-> NoError,
                   account |-> [initialized |-> TRUE, store |-> c.store,
                                metadata |-> InitAccount.metadata]]

(* init_storage_account: the account is created (which fails when it        *)
(* exists), and a default store with StateInitialized set is committed at   *)
(* the slot of the Clock and written to it.                                 *)
init_storage_account(acc, slot, synth_root) ==
    IF acc.initialized
    THEN [ok |-> FALSE, stage |-> Some("account"), err |-> "",
          code |-> Custom(0), account |-> acc]
    ELSE LET ibc_state == set(IbcState_new(slot), StateInitializedPath, Unit)
             c == commit(EmptyStore, ibc_state, synth_root)
         IN  IF ~c.ok
             THEN [ok |-> FALSE, stage |-> Some("commit"), err |-> "",
                   code |-> Custom(STORAGE_ERR_CODE), account |-> acc]
             ELSE [ok |-> TRUE, stage |-> None, err |-> "", code |-> NoError,
                   account |-> [initialized |-> TRUE, store |-> c.store,
                                metadata |-> InitAccount.metadata]]

(* One instruction: the account data after it, and what it returned; `err`  *)
(* is the error the closure logged with ic_msg! before it was mapped to the *)
(* instruction's error code.                                                *)
Instruction(op, key, arg, r) ==
    /\ \E done \in {r} :
          /\ account' = done.account
          /\ last' = [op |-> op, key |-> key, arg |-> arg, res |-> done.stage,
                      ok |-> done.ok, err |-> done.err, code |-> done.code]
    /\ commits' = commits + 1
    /\ UNCHANGED <<store, overlay, committed, clock>>

(* IbcInstruction::Admin(InitStorageAccount) *)
InitStorageAccount(synth_root) ==
    /\ commits < MaxInstr
    /\ Instruction("init_storage_account", NoKey, 0,
                   init_storage_account(account, clock, synth_root))

(* IbcInstruction::Port(Bind) signed by payer_key *)
BindPort(port_id, payer_key, synth_root) ==
    LET f == [kind |-> "bind_port", port_id |-> port_id, payer_key |-> payer_key]
    IN  /\ commits < MaxInstr
        /\ Instruction("bind_port", PortPath(port_id), payer_key,
                       with_ibc_handler(account, clock, synth_root, f))

(* IbcInstruction::Port(Release) signed by payer_key *)
ReleasePort(port_id, payer_key, synth_root) ==
    LET f == [kind |-> "release_port", port_id |-> port_id, payer_key |-> payer_key]
    IN  /\ commits < MaxInstr
        /\ Instruction("release_port", PortPath(port_id), payer_key,
                       with_ibc_handler(account, clock, synth_root, f))

(* IbcInstruction::Router(MsgCreateClient) *)
CreateClient(cs, synth_root) ==
    LET f == [kind |-> "create_client", client_state |-> cs]
    IN  /\ commits < MaxInstr
        /\ account.metadata.client_id_counter \in ClientIds
        /\ Instruction("create_client",
                       ClientStatePath(account.metadata.client_id_counter),
                       latest_height(cs),
                       with_ibc_handler(account, clock, synth_root, f))

(* IbcInstruction::Router(MsgUpdateClient) *)
UpdateClient(client_id, height, synth_root) ==
    LET f == [kind |-> "update_client", client_id |-> client_id,
              header |-> HeaderAt(height)]
    IN  /\ commits < MaxInstr
        /\ Instruction("update_client", ClientStatePath(client_id), height,
                       with_ibc_handler(account, clock, synth_root, f))

(* IbcInstruction::Router(MsgUpgradeClient) *)
UpgradeClient(client_id, upgraded, expired, proofs_ok, synth_root) ==
    LET f == [kind |-> "upgrade_client", client_id |-> client_id,
              client_state |-> upgraded, expired |-> expired,
              proofs_ok |-> proofs_ok]
    IN  /\ commits < MaxInstr
        /\ Instruction("upgrade_client", ClientStatePath(client_id),
                       latest_height(upgraded),
                       with_ibc_handler(account, clock, synth_root, f))

(* The Clock sysvar moves to the next slot. *)
Tick ==
    /\ clock < MaxSlot
    /\ clock' = clock + 1
    /\ UNCHANGED <<store, overlay, last, commits, committed, account>>

NextProgram ==
    \/ \E synth_root \in BOOLEAN : InitStorageAccount(synth_root)
    \/ \E port_id \in PortIds, payer_key \in Pubkeys, synth_root \in BOOLEAN :
          BindPort(port_id, payer_key, synth_root)
    \/ \E port_id \in PortIds, payer_key \in Pubkeys, synth_root \in BOOLEAN :
          ReleasePort(port_id, payer_key, synth_root)
    \/ \E cs \in ClientStates, synth_root \in BOOLEAN : CreateClient(cs, synth_root)
    \/ \E client_id \in ClientIds, height \in Heights, synth_root \in BOOLEAN :
          UpdateClient(client_id, height, synth_root)
    \/ \E client_id \in ClientIds, upgraded \in ClientStates,
          expired \in BOOLEAN, proofs_ok \in BOOLEAN, synth_root \in BOOLEAN :
          UpgradeClient(client_id, upgraded, expired, proofs_ok, synth_root)
    \/ Tick

SpecProgram == Init /\ [][NextProgram]_vars

---------------------------------------------------------------------------
(* SpecRouter: the storage account under the messages of the router         *)
(* envelope (clients, connections, channels, packets), with the port and    *)
(* admin instructions they need; every step is one whole instruction.       *)

MaxMsgs == 9                \* successful instructions in one run

ChannelPorts == {1}

(* What the environment of a message decides: whether its proofs verify     *)
(* against the consensus state, and whether the module's callbacks return   *)
(* Ok.                                                                      *)
Envs == {<<TRUE, TRUE>>, <<FALSE, TRUE>>, <<TRUE, FALSE>>}
ProofEnvs == {<<TRUE, TRUE>>, <<FALSE, TRUE>>}
ModuleEnvs == {<<TRUE, TRUE>>, <<TRUE, FALSE>>}

(* One message of a run: `commits` counts the instructions that went       *)
(* through; one that fails leaves it as it is and can come at any time.     *)
(* All the messages of a run arrive in slot 0, where the tree of a commit   *)
(* starts from the null root whatever put_value_set finds.                  *)
Message(op, key, arg, f) ==
    \E r \in {with_ibc_handler(account, clock, TRUE, f)} :
        /\ commits < MaxMsgs \/ ~r.ok
        /\ account' = r.account
        /\ last' = [op |-> op, key |-> key, arg |-> arg, res |-> r.stage,
                    ok |-> r.ok, err |-> r.err, code |-> r.code]
        /\ commits' = IF r.ok THEN commits + 1 ELSE commits

(* IbcInstruction::Admin(InitStorageAccount), first instruction of a run *)
MsgInitStorageAccount ==
    /\ commits < MaxMsgs
    /\ ~account.initialized
    /\ Instruction("init_storage_account", NoKey, 0,
                   init_storage_account(account, clock, TRUE))

(* IbcInstruction::Port(Bind) *)
MsgBindPort(port_id, payer_key) ==
    /\ account.initialized
    /\ Message("bind_port", PortPath(port_id), payer_key,
               [kind |-> "bind_port", port_id |-> port_id, payer_key |-> payer_key])
    /\ UNCHANGED <<store, overlay, committed, clock>>

(* MsgEnvelope::Client(ClientMsg::CreateClient) *)
MsgCreateClient(cs) ==
    /\ account.metadata.client_id_counter \in ClientIds
    /\ Message("create_client", ClientStatePath(account.metadata.client_id_counter),
               latest_height(cs),
               [kind |-> "create_client", client_state |-> cs])
    /\ UNCHANGED <<store, overlay, committed, clock>>

(* MsgEnvelope::Connection(ConnectionMsg::OpenInit) *)
MsgConnectionOpenInit(client_id) ==
    /\ account.metadata.connection_id_counter \in ConnIds
    /\ Message("conn_open_init", ConnectionPath(account.metadata.connection_id_counter),
               0,
               [kind |-> "conn_open_init", client_id |-> client_id])
    /\ UNCHANGED <<store, overlay, committed, clock>>

(* MsgEnvelope::Connection(ConnectionMsg::OpenTry) *)
MsgConnectionOpenTry(client_id, proof_height, env) ==
    /\ account.metadata.connection_id_counter \in ConnIds
    /\ Message("conn_open_try", ConnectionPath(account.metadata.connection_id_counter),
               <<client_id, proof_height>>,
               [kind |-> "conn_open_try", client_id |-> client_id,
                proof_height |-> proof_height, proofs_ok |-> env[1]])
    /\ UNCHANGED <<store, overlay, committed, clock>>

(* MsgEnvelope::Connection(ConnectionMsg::OpenAck) *)
MsgConnectionOpenAck(conn_id, proof_height, env) ==
    /\ Message("conn_open_ack", ConnectionPath(conn_id), proof_height,
               [kind |-> "conn_open_finish", conn_id |-> conn_id, from |-> "Init",
                proof_height |-> proof_height, proofs_ok |-> env[1]])
    /\ UNCHANGED <<store, overlay, committed, clock>>

(* MsgEnvelope::Connection(ConnectionMsg::OpenConfirm) *)
MsgConnectionOpenConfirm(conn_id, proof_height, env) ==
    /\ Message("conn_open_confirm", ConnectionPath(conn_id), proof_height,
               [kind |-> "conn_open_finish", conn_id |-> conn_id, from |-> "TryOpen",
                proof_height |-> proof_height, proofs_ok |-> env[1]])
    /\ UNCHANGED <<store, overlay, committed, clock>>

(* MsgEnvelope::Channel(ChannelMsg::OpenInit) *)
MsgChannelOpenInit(port_id, conn_id, ordering, env) ==
    /\ account.metadata.channel_id_counter \in ChanIds
    /\ Message("chan_open_init",
               ChannelEndPath(port_id, account.metadata.channel_id_counter),
               0,
               [kind |-> "chan_open_init", port_id |-> port_id, conn_id |-> conn_id,
                ordering |-> ordering, module_ok |-> env[2]])
    /\ UNCHANGED <<store, overlay, committed, clock>>

(* MsgEnvelope::Channel(ChannelMsg::OpenTry) *)
MsgChannelOpenTry(port_id, conn_id, ordering, proof_height, env) ==
    /\ account.metadata.channel_id_counter \in ChanIds
    /\ Message("chan_open_try",
               ChannelEndPath(port_id, account.metadata.channel_id_counter),
               proof_height,
               [kind |-> "chan_open_try", port_id |-> port_id, conn_id |-> conn_id,
                ordering |-> ordering, proof_height |-> proof_height,
                proofs_ok |-> env[1], module_ok |-> env[2]])
    /\ UNCHANGED <<store, overlay, committed, clock>>

ChanStep(kind, port_id, chan_id, from, to, proof_height, env) ==
    [kind |-> "chan_step", port_id |-> port_id, chan_id |-> chan_id,
     from |-> from, to |-> to, proof_height |-> proof_height,
     proofs_ok |-> env[1], module_ok |-> env[2]]

(* MsgEnvelope::Channel(ChannelMsg::OpenAck) *)
MsgChannelOpenAck(port_id, chan_id, proof_height, env) ==
    /\ Message("chan_open_ack", ChannelEndPath(port_id, chan_id), proof_height,
               ChanStep("chan_open_ack", port_id, chan_id, {"Init"}, "Open",
                        proof_height, env))
    /\ UNCHANGED <<store, overlay, committed, clock>>

(* MsgEnvelope::Channel(ChannelMsg::OpenConfirm) *)
MsgChannelOpenConfirm(port_id, chan_id, proof_height, env) ==
    /\ Message("chan_open_confirm", ChannelEndPath(port_id, chan_id), proof_height,
               ChanStep("chan_open_confirm", port_id, chan_id, {"TryOpen"}, "Open",
                        proof_height, env))
    /\ UNCHANGED <<store, overlay, committed, clock>>

(* MsgEnvelope::Channel(ChannelMsg::CloseInit): no proof *)
MsgChannelCloseInit(port_id, chan_id, env) ==
    /\ Message("chan_close_init", ChannelEndPath(port_id, chan_id), 0,
               ChanStep("chan_close_init", port_id, chan_id,
                        {"Init", "TryOpen", "Open"}, "Closed", 0, env))
    /\ UNCHANGED <<store, overlay, committed, clock>>

(* MsgEnvelope::Channel(ChannelMsg::CloseConfirm) *)
MsgChannelCloseConfirm(port_id, chan_id, proof_height, env) ==
    /\ Message("chan_close_confirm", ChannelEndPath(port_id, chan_id), proof_height,
               ChanStep("chan_close_confirm", port_id, chan_id,
                        {"Init", "TryOpen", "Open"}, "Closed", proof_height, env))
    /\ UNCHANGED <<store, overlay, committed, clock>>

(* MsgEnvelope::Packet(PacketMsg::Recv) *)
MsgRecvPacket(port_id, chan_id, seq, proof_height, env) ==
    /\ Message("recv_packet", ReceiptPath(port_id, chan_id, seq), proof_height,
               [kind |-> "recv_packet", port_id |-> port_id, chan_id |-> chan_id,
                seq |-> seq, proof_height |-> proof_height,
                proofs_ok |-> env[1], module_ok |-> env[2]])
    /\ UNCHANGED <<store, overlay, committed, clock>>

(* MsgEnvelope::Packet(PacketMsg::Ack) *)
MsgAcknowledgement(port_id, chan_id, seq, proof_height, env) ==
    /\ Message("acknowledgement", CommitmentPath(port_id, chan_id, seq), proof_height,
               [kind |-> "ack_or_timeout", port_id |-> port_id, chan_id |-> chan_id,
                seq |-> seq, timeout |-> FALSE, proof_height |-> proof_height,
                proofs_ok |-> env[1], module_ok |-> env[2]])
    /\ UNCHANGED <<store, overlay, committed, clock>>

(* MsgEnvelope::Packet(PacketMsg::Timeout) *)
MsgTimeout(port_id, chan_id, seq, proof_height, env) ==
    /\ Message("timeout", CommitmentPath(port_id, chan_id, seq), proof_height,
               [kind |-> "ack_or_timeout", port_id |-> port_id, chan_id |-> chan_id,
                seq |-> seq, timeout |-> TRUE, proof_height |-> proof_height,
                proofs_ok |-> env[1], module_ok |-> env[2]])
    /\ UNCHANGED <<store, overlay, committed, clock>>

(* Send of a packet by the logic above the handler, committed like a       *)
(* message.                                                                 *)
SendPacket(port_id, chan_id, seq) ==
    /\ Message("send_packet", CommitmentPath(port_id, chan_id, seq), 0,
               [kind |-> "send_packet", port_id |-> port_id, chan_id |-> chan_id,
                seq |-> seq])
    /\ UNCHANGED <<store, overlay, committed, clock>>

NextRouter ==
    \/ MsgInitStorageAccount
    \/ \E port_id \in ChannelPorts, payer_key \in Pubkeys :
          MsgBindPort(port_id, payer_key)
    \/ \E cs \in ClientStates : MsgCreateClient(cs)
    \/ \E client_id \in ClientIds :
          MsgConnectionOpenInit(client_id)
    \/ \E client_id \in ClientIds, proof_height \in Heights, env \in ProofEnvs :
          MsgConnectionOpenTry(client_id, proof_height, env)
    \/ \E conn_id \in ConnIds, proof_height \in Heights, env \in ProofEnvs :
          \/ MsgConnectionOpenAck(conn_id, proof_height, env)
          \/ MsgConnectionOpenConfirm(conn_id, proof_height, env)
    \/ \E port_id \in ChannelPorts, conn_id \in ConnIds, ordering \in Orders :
          \/ \E env \in ModuleEnvs :
                MsgChannelOpenInit(port_id, conn_id, ordering, env)
          \/ \E proof_height \in Heights, env \in Envs :
                MsgChannelOpenTry(port_id, conn_id, ordering, proof_height, env)

SpecRouter == Init /\ [][NextRouter]_vars

---------------------------------------------------------------------------
(* SpecPacket: the channel and packet messages on an account that holds a   *)
(* bound port, a client and an Open connection.  The account of the initial *)
(* state is what the program makes of the five instructions that set these  *)
(* up in slot 0, which `commits` counts.                                    *)

RECURSIVE Run(_, _)
Run(acc, closures) ==
    IF closures = <<>> THEN acc
    ELSE Run(with_ibc_handler(acc, 0, TRUE, Head(closures)).account, Tail(closures))

PacketAccount ==
    Run(init_storage_account(InitAccount, 0, TRUE).account,
        << [kind |-> "bind_port", port_id |-> 1, payer_key |-> 1],
           [kind |-> "create_client", client_state |-> EclipseClientState("eclipse", HeaderAt(2), None)],
           [kind |-> "conn_open_init", client_id |-> 0],
           [kind |-> "conn_open_finish", conn_id |-> 0, from |-> "Init",
            proof_height |-> 2, proofs_ok |-> TRUE] >>)

InitPacket ==
    /\ store = EmptyStore
    /\ overlay = Closed
    /\ last = NoCall
    /\ commits = 5
    /\ committed = NoCommit
    /\ account = PacketAccount
    /\ clock = 0

(* A proof height with what the environment decides: the client of the     *)
(* account is at height 2 and holds no consensus state of height 1.         *)
PacketEnvs == {<<2, <<TRUE, TRUE>>>>, <<2, <<FALSE, TRUE>>>>,
               <<2, <<TRUE, FALSE>>>>, <<1, <<TRUE, TRUE>>>>}

NextPacket ==
    \/ \E port_id \in ChannelPorts, conn_id \in ConnIds, ordering \in Orders :
          \/ \E env \in ModuleEnvs :
                MsgChannelOpenInit(port_id, conn_id, ordering, env)
          \/ \E pe \in PacketEnvs :
                MsgChannelOpenTry(port_id, conn_id, ordering, pe[1], pe[2])
    \/ \E port_id \in ChannelPorts, chan_id \in ChanIds, pe \in PacketEnvs :
          \/ MsgChannelOpenAck(port_id, chan_id, pe[1], pe[2])
          \/ MsgChannelOpenConfirm(port_id, chan_id, pe[1], pe[2])
          \/ MsgChannelCloseConfirm(port_id, chan_id, pe[1], pe[2])
    \/ \E port_id \in ChannelPorts, chan_id \in ChanIds, env \in ModuleEnvs :
          MsgChannelCloseInit(port_id, chan_id, env)
    \/ \E port_id \in ChannelPorts, chan_id \in ChanIds, seq \in Seqs,
          pe \in PacketEnvs :
          \/ MsgRecvPacket(port_id, chan_id, seq, pe[1], pe[2])
          \/ MsgAcknowledgement(port_id, chan_id, seq, pe[1], pe[2])
          \/ MsgTimeout(port_id, chan_id, seq, pe[1], pe[2])
    \/ \E port_id \in ChannelPorts, chan_id \in ChanIds, seq \in Seqs :
          SendPacket(port_id, chan_id, seq)

SpecPacket == InitPacket /\ [][NextPacket]_vars

---------------------------------------------------------------------------
(* Properties of the overlay and the store under Spec.                      *)

(* The versions at which the store holds an entry for a key. *)
Entries(s, key) ==
    IF key \in DOMAIN s.value_history THEN DOMAIN s.value_history[key] ELSE {}

(* Every version at which the store holds an entry of any key. *)
WrittenVersions(s) == UNION {Entries(s, key) : key \in DOMAIN s.value_history}

(* What a record (present or tombstone) reads as. *)
Decoded(key, record) ==
    IF IsSome(record) THEN Some(decode(key, Unwrap(record))) ELSE None

(* The committed value of a key as of version v: the entry with the         *)
(* greatest version at or below v, absent when there is none or when it is  *)
(* a tombstone.                                                             *)
StoredAt(s, key, v) ==
    LET E == {u \in Entries(s, key) : u <= v}
    IN  IF E = {} THEN None
        ELSE LET u == CHOOSE x \in E : \A y \in E : y <= x
             IN  Decoded(key, s.value_history[key][u])

(* C3: get(p) reads the overlay's pending changes before the store: a       *)
(* pending value is returned, a pending tombstone reads as absent, and only *)
(* a key with no pending entry is read from the store at the overlay's      *)
(* version; so set(p, w) then get(p) yields w, update(p, insert m) then     *)
(* get(p) yields a set holding m, and remove(p) then get(p) yields absent,  *)
(* all before any commit.                                                   *)
C3_GetReadsPendingFirst ==
    [][last'.op = "get" =>
        LET key == last'.key
        IN  /\ key \in DOMAIN overlay.pending
                => last'.res = Decoded(key, overlay.pending[key])
            /\ key \notin DOMAIN overlay.pending
                => last'.res = StoredAt(store, key, overlay.version)
            /\ (last.op = "set" /\ last.key = key) => last'.res = last.res
            /\ (last.op = "update" /\ last.key = key)
                => IsSome(last'.res) /\ Unwrap(last.res) \in Unwrap(last'.res)
            /\ (last.op = "remove" /\ last.key = key) => last'.res = None
    ]_vars

(* A get answered from a pending entry that shadows a different committed   *)
(* value.                                                                   *)
C3_Witness ==
    /\ last.op = "get"
    /\ last.key \in DOMAIN overlay.pending
    /\ IsSome(StoredAt(store, last.key, overlay.version))
    /\ last.res # StoredAt(store, last.key, overlay.version)

C2_CommittedWritesReadBack ==
    [][committed.done =>
        \A key \in DOMAIN committed.writes, v2 \in Versions :
            (/\ v2 >= committed.version
             /\ Entries(store', key) \cap ((committed.version + 1)..v2) = {})
            => get(store', IbcState_new(v2), key)
                 = Decoded(key, committed.writes[key])
    ]_vars

(* C6: a commit that fails leaves the store as it was.                      *)
C6_FailedCommitLeavesStore ==
    [][(last'.op = "commit" /\ ~last'.ok) => store' = store]_vars

(* C7: once a commit at slot v has succeeded, a second commit at the same   *)
(* slot v is rejected.                                                      *)
C7_SecondCommitAtSlotRejected ==
    [][(/\ committed.done
        /\ committed.writes # EmptyMap
        /\ last'.op = "commit"
        /\ overlay.pending # EmptyMap
        /\ overlay.version = committed.version)
       => ~last'.ok
    ]_vars

(* C8: a commit whose version is lower than the latest version written to   *)
(* the store is rejected.                                                   *)
C8_CommitBelowLatestRejected ==
    [][(/\ last'.op = "commit"
        /\ overlay.pending # EmptyMap
        /\ WrittenVersions(store) # {}
        /\ overlay.version < Max(WrittenVersions(store)))
       => ~last'.ok
    ]_vars

---------------------------------------------------------------------------
(* Properties of the store under SpecStore.                                 *)

(* C1: get_value_option(max_version, key) returns the record of the key's   *)
(* history entry with the greatest version <= max_version, which is None    *)
(* for a tombstone, and None when the key has no entry at or before         *)
(* max_version.                                                             *)
C1_GetValueOptionLatestAtOrBefore ==
    last.op = "get_value_option" =>
        LET below == {u \in Entries(store, last.key) : u <= last.arg}
        IN  /\ below = {} => last.res = None
            /\ \A u \in below :
                  (\A x \in below : x <= u)
                  => last.res = store.value_history[last.key][u]

(* A read that has an older and a newer entry to choose from, and a later   *)
(* entry above max_version to leave out.                                    *)
C1_Witness ==
    /\ last.op = "get_value_option"
    /\ IsSome(last.res)
    /\ \E u, w \in Entries(store, last.key) :
          /\ u < w /\ w <= last.arg
          /\ store.value_history[last.key][u] # store.value_history[last.key][w]
    /\ \E x \in Entries(store, last.key) : x > last.arg

(* C9: write_node_batch returns an error when the batch carries, for some   *)
(* key, a version strictly less than the latest version of that key's value *)
(* history, and accepts a batch in which every key's version is greater     *)
(* than that key's latest version.                                          *)
C9_WriteNodeBatchMonotonicRule ==
    [][last'.op = "write_node_batch" /\ commits' = commits + 1 =>
        LET entries == Unwrap(last'.res)
            Stale(e) == /\ Entries(store, e[2]) # {}
                        /\ e[1] < Max(Entries(store, e[2]))
            Newer(e) == \/ Entries(store, e[2]) = {}
                        \/ e[1] > Max(Entries(store, e[2]))
        IN  /\ (\E e \in entries : Stale(e)) => ~last'.ok
            /\ (\A e \in entries : Newer(e)) => last'.ok
    ]_vars

(* A batch refused for a stale entry.                                       *)
C9_Witness ==
    /\ last.op = "write_node_batch"
    /\ ~last.ok
    /\ \E e \in Unwrap(last.res) :
          /\ Entries(store, e[2]) # {}
          /\ e[1] < Max(Entries(store, e[2]))

---------------------------------------------------------------------------
(* Properties of the program under SpecProgram.                             *)

(* C5: when the closure of a Router, BindPort or ReleasePort instruction    *)
(* fails, or the commit after it fails, the storage account is what it was  *)
(* before the instruction: its store and its three id counters.             *)
C5_FailedInstructionLeavesAccount ==
    [][(/\ commits' = commits + 1
        /\ last'.op \in {"bind_port", "release_port", "create_client", "update_client"}
        /\ ~last'.ok)
       => /\ account'.store = account.store
          /\ account'.metadata = account.metadata
          /\ account' = account
    ]_vars

(* A failed instruction on an account that holds state: the closure failed, *)
(* or the closure had raised a counter and the commit failed.               *)
C5_Witness ==
    /\ account.initialized
    /\ ~last.ok
    /\ \/ last.op = "release_port" /\ last.res = Some("handler")
             /\ IsSome(get(account.store, IbcState_new(clock), last.key))
       \/ last.op = "create_client" /\ last.res = Some("commit")

(* The heights ConsensusHeights(c) holds, read at version v. *)
ConsensusHeightsAt(c, v) ==
    LET r == get(account.store, IbcState_new(v), ConsensusHeightsPath(c))
    IN  IF IsSome(r) THEN Unwrap(r) ELSE {}

(* The heights at which a consensus state of c is present, read at v. *)
ConsensusStatesAt(c, v) ==
    {h \in Heights :
        IsSome(get(account.store, IbcState_new(v), ClientConsensusStatePath(c, h)))}

(* C10: in the persisted state, at every version, ConsensusHeights(c) is    *)
(* exactly the set of heights at which a ClientConsensusState(c, h) entry   *)
(* is present, for every client c.                                          *)
C10_ConsensusHeightsMatchStates ==
    \A c \in ClientIds, v \in Versions :
        ConsensusHeightsAt(c, v) = ConsensusStatesAt(c, v)

(* A client updated after its creation: two heights on record.              *)
C10_Witness ==
    /\ last.op = "update_client"
    /\ last.ok
    /\ \E c \in ClientIds : ConsensusHeightsAt(c, clock) = {1, 2}

(* The module a port is bound to in the account acc, read at slot.          *)
PortOf(acc, slot, p) == get(acc.store, IbcState_new(slot), PortPath(p))

(* The module ids AllModules holds in the account acc, read at slot.        *)
AllModulesOf(acc, slot) ==
    LET r == get(acc.store, IbcState_new(slot), AllModulesPath)
    IN  IF IsSome(r) THEN Unwrap(r) ELSE {}

(* C11: after any sequence of BindPort and ReleasePort instructions, a      *)
(* module id is in AllModules if and only if at least one port is bound to  *)
(* it.                                                                      *)
C11_AllModulesMatchPorts ==
    \A m \in ModuleIds :
        m \in AllModulesOf(account, clock)
            <=> \E p \in PortIds : PortOf(account, clock, p) = Some(m)

(* C12: BindPort(p, caller) on a port that is already bound, to any module, *)
(* fails in bind_port and leaves the account as it was; on an unbound port  *)
(* bind_port succeeds, and the committed state has Port(p) = the caller's   *)
(* module id and AllModules extended by exactly that id.                    *)
C12_BindPortOnlyWhenUnbound ==
    [][(/\ commits' = commits + 1
        /\ last'.op = "bind_port"
        /\ account.initialized)
       => LET p == last'.key[2]
              m == module_id_of_pubkey(last'.arg)
          IN  IF IsSome(PortOf(account, clock, p))
              THEN /\ ~last'.ok
                   /\ last'.res = Some("handler")
                   /\ account' = account
              ELSE /\ last'.res # Some("handler")
                   /\ last'.ok =>
                        /\ PortOf(account', clock, p) = Some(m)
                        /\ AllModulesOf(account', clock)
                             = AllModulesOf(account, clock) \cup {m}
                        /\ \A q \in PortIds \ {p} :
                              PortOf(account', clock, q) = PortOf(account, clock, q)
    ]_vars

(* A BindPort refused on a port its caller holds already, after a BindPort  *)
(* that went through.                                                       *)
C12_Witness ==
    /\ last.op = "bind_port"
    /\ ~last.ok
    /\ last.res = Some("handler")
    /\ PortOf(account, clock, last.key[2]) = Some(module_id_of_pubkey(last.arg))
    /\ module_id_of_pubkey(last.arg) \in AllModulesOf(account, clock)

(* C13: ReleasePort(p, caller) fails in release_port and leaves the account *)
(* as it was when p is unbound or bound to another module; when p is bound  *)
(* to the caller release_port succeeds, and the committed state has no      *)
(* Port(p) and AllModules without the caller's module id.                   *)
C13_ReleasePortOnlyByOwner ==
    [][(/\ commits' = commits + 1
        /\ last'.op = "release_port"
        /\ account.initialized)
       => LET p == last'.key[2]
              m == module_id_of_pubkey(last'.arg)
          IN  IF PortOf(account, clock, p) # Some(m)
              THEN /\ ~last'.ok
                   /\ last'.res = Some("handler")
                   /\ account' = account
              ELSE /\ last'.res # Some("handler")
                   /\ last'.ok =>
                        /\ PortOf(account', clock, p) = None
                        /\ AllModulesOf(account', clock)
                             = AllModulesOf(account, clock) \ {m}
                        /\ \A q \in PortIds \ {p} :
                              PortOf(account', clock, q) = PortOf(account, clock, q)
    ]_vars

(* A ReleasePort that went through, and one refused to a caller that does   *)
(* not hold the port.                                                       *)
C13_Witness ==
    /\ last.op = "release_port"
    /\ \/ /\ last.ok
          /\ PortOf(account, clock, last.key[2]) = None
          /\ \E v \in Versions : IsSome(PortOf(account, v, last.key[2]))
       \/ /\ ~last.ok
          /\ IsSome(PortOf(account, clock, last.key[2]))
          /\ PortOf(account, clock, last.key[2])
               # Some(module_id_of_pubkey(last.arg))

(* The client state of c stored in the account acc, read at slot.           *)
ClientStateOf(acc, slot, c) == get(acc.store, IbcState_new(slot), ClientStatePath(c))

C16_FrozenClientRejectsUpdates ==
    [][(/\ commits' = commits + 1
        /\ last'.op \in {"update_client", "upgrade_client"}
        /\ account.initialized
        /\ IsSome(ClientStateOf(account, clock, last'.key[2]))
        /\ Unwrap(ClientStateOf(account, clock, last'.key[2])).frozen_height # None)
       => /\ ~last'.ok
          /\ last'.err = "ClientFrozen"
          /\ account' = account
    ]_vars

(* An upgrade to a greater height refused because the client is frozen.     *)
C16_Witness ==
    /\ last.op = "upgrade_client"
    /\ ~last.ok
    /\ last.err = "ClientFrozen"
    /\ IsSome(ClientStateOf(account, clock, last.key[2]))
    /\ Unwrap(ClientStateOf(account, clock, last.key[2])).frozen_height # None
    /\ last.arg > latest_height(Unwrap(ClientStateOf(account, clock, last.key[2])))


---------------------------------------------------------------------------
(* Properties of the router messages under SpecRouter and SpecPacket.       *)

(* The counters of the account's metadata and the messages that mint an id  *)
(* from each.                                                              *)
Counters == {"client_id_counter", "connection_id_counter", "channel_id_counter"}

MintOps(counter) ==
    CASE counter = "client_id_counter" -> {"create_client"}
      [] counter = "connection_id_counter" -> {"conn_open_init", "conn_open_try"}
      [] counter = "channel_id_counter" -> {"chan_open_init", "chan_open_try"}

(* The id the path of a minting message carries. *)
MintedId(counter, key) == IF counter = "channel_id_counter" THEN key[3] ELSE key[2]

(* The ids of a kind that the account acc holds an object of, read at slot. *)
StoredIds(acc, slot, counter) ==
    CASE counter = "client_id_counter" ->
            {c \in ClientIds \cup {1} :
                IsSome(get(acc.store, IbcState_new(slot), ClientStatePath(c)))}
      [] counter = "connection_id_counter" ->
            {c \in ConnIds \cup {2} :
                IsSome(get(acc.store, IbcState_new(slot), ConnectionPath(c)))}
      [] counter = "channel_id_counter" ->
            {c \in ChanIds \cup {2} : \E port_id \in PortIds :
                IsSome(get(acc.store, IbcState_new(slot), ChannelEndPath(port_id, c)))}

(* C14: over successful and failed instructions each persisted counter      *)
(* never decreases; it grows, by exactly one, exactly when a message that   *)
(* allocates an id of its kind succeeds, and the id minted is the counter's *)
(* value before, an id no stored object has, and every stored object of   *)
(* the kind has an id below the counter; so every id minted is above every  *)
(* earlier one of its kind and none is reused.                              *)
C14_CountersGrowByOnePerAllocation ==
    [][\A counter \in Counters :
          LET before == account.metadata[counter]
              after == account'.metadata[counter]
              minted == last'.ok /\ last'.op \in MintOps(counter)
          IN  /\ after >= before
              /\ after = (IF minted THEN before + 1 ELSE before)
              /\ minted =>
                    /\ MintedId(counter, last'.key) = before
                    /\ before \notin StoredIds(account, clock, counter)
                    /\ before \in StoredIds(account', clock', counter)
              /\ \/ account' = account
                 \/ \A id \in StoredIds(account', clock', counter) : id < after]_vars

(* Two connections and two channels were minted one after the other. *)
C14_Witness ==
    /\ last.ok
    /\ last.op \in {"chan_open_init", "chan_open_try"}
    /\ account.metadata.client_id_counter = 1
    /\ account.metadata.connection_id_counter = 2
    /\ account.metadata.channel_id_counter = 2
    /\ StoredIds(account, clock, "connection_id_counter") = {0, 1}
    /\ StoredIds(account, clock, "channel_id_counter") = {0, 1}


(* The connection end stored at conn_id in the account acc, read at slot. *)
ConnectionOf(acc, slot, conn_id) ==
    get(acc.store, IbcState_new(slot), ConnectionPath(conn_id))

(* The handshake messages that carry a proof, and the state the connection  *)
(* of OpenAck and OpenConfirm must be in.                                   *)
ProofConnOps == {"conn_open_try", "conn_open_ack", "conn_open_confirm"}

ConnStateFor(op) == IF op = "conn_open_ack" THEN "Init" ELSE "TryOpen"

(* The local client a handshake message refers to (OpenTry names it, OpenAck *)
(* and OpenConfirm take it from their connection end), or None when the     *)
(* message does not get as far as the client.                               *)
ReferencedClient(acc, slot, call_) ==
    IF call_.op = "conn_open_try" THEN Some(call_.arg[1])
    ELSE LET conn_end == ConnectionOf(acc, slot, call_.key[2])
         IN  IF IsSome(conn_end) /\ Unwrap(conn_end).state = ConnStateFor(call_.op)
             THEN Some(Unwrap(conn_end).client_id)
             ELSE None

ProofHeightOf(call_) == IF call_.op = "conn_open_try" THEN call_.arg[2] ELSE call_.arg

(* C17: a connection handshake message (OpenTry, OpenAck, OpenConfirm)      *)
(* whose proof height is above the latest height of the local client it     *)
(* refers to is rejected and leaves the account as it was, with             *)
(* InvalidProofHeight unless the client is frozen; with a proof height at   *)
(* or below the latest height it is never rejected for its proof height.    *)
C17_ProofHeightAboveLatestRejected ==
    [][last'.op \in ProofConnOps =>
          LET client_id == ReferencedClient(account, clock, last')
              cs == ClientStateOf(account, clock, Unwrap(client_id))
          IN  IF /\ IsSome(client_id)
                 /\ IsSome(cs)
                 /\ ProofHeightOf(last') > latest_height(Unwrap(cs))
              THEN /\ ~last'.ok
                   /\ account' = account
                   /\ last'.err = IF IsSome(Unwrap(cs).frozen_height)
                                  THEN "ClientFrozen"
                                  ELSE "InvalidProofHeight"
              ELSE last'.err # "InvalidProofHeight"]_vars

(* OpenAck on a connection in Init was rejected for a proof height above    *)
(* the latest height of its client, and the same message goes through at    *)
(* the latest height.                                                       *)
C17_Witness ==
    /\ last.op = "conn_open_ack"
    /\ ~last.ok
    /\ last.err = "InvalidProofHeight"
    /\ LET conn_end == ConnectionOf(account, clock, last.key[2])
       IN  /\ IsSome(conn_end)
           /\ Unwrap(conn_end).state = "Init"
           /\ LET cs == ClientStateOf(account, clock, Unwrap(conn_end).client_id)
              IN  /\ IsSome(cs)
                  /\ last.arg = latest_height(Unwrap(cs)) + 1
                  /\ with_ibc_handler(account, clock, TRUE,
                        [kind |-> "conn_open_finish", conn_id |-> last.key[2],
                         from |-> "Init",
                         proof_height |-> latest_height(Unwrap(cs)),
                         proofs_ok |-> TRUE]).ok


(* The channel end, the receipt and the acknowledgement commitment stored   *)
(* in the account acc, read at slot.                                        *)
ChannelOf(acc, slot, port_id, chan_id) ==
    get(acc.store, IbcState_new(slot), ChannelEndPath(port_id, chan_id))

ReceiptOf(acc, slot, port_id, chan_id, seq) ==
    get(acc.store, IbcState_new(slot), ReceiptPath(port_id, chan_id, seq))

AckOf(acc, slot, port_id, chan_id, seq) ==
    get(acc.store, IbcState_new(slot), AckPath(port_id, chan_id, seq))

(* A packet (port, channel, sequence) of an unordered channel that has been *)
(* received: its receipt is stored.                                         *)
ReceivedUnordered(acc, slot, port_id, chan_id, seq) ==
    /\ IsSome(ChannelOf(acc, slot, port_id, chan_id))
    /\ Unwrap(ChannelOf(acc, slot, port_id, chan_id)).ordering = "Unordered"
    /\ IsSome(ReceiptOf(acc, slot, port_id, chan_id, seq))

(* C18: on an unordered channel, once a Recv of a packet has succeeded (its *)
(* receipt is stored, which only a successful Recv does), every later Recv  *)
(* of the same port, channel and sequence fails and leaves the account as   *)
(* it was; the first Recv stores the receipt and the acknowledgement        *)
(* together, and the later ones that get as far as the duplicate check are  *)
(* rejected there, with AcknowledgementExists.                              *)
C18_DuplicateRecvRejected ==
    [][last'.op = "recv_packet" =>
          LET port_id == last'.key[2]
              chan_id == last'.key[3]
              seq == last'.key[4]
          IN  IF ReceivedUnordered(account, clock, port_id, chan_id, seq)
              THEN /\ ~last'.ok
                   /\ account' = account
                   /\ last'.err \in {"InvalidChannelState", "ConsensusStateNotFound",
                                     "Ics23Verification", "AcknowledgementExists"}
                   /\ IsSome(AckOf(account, clock, port_id, chan_id, seq))
              ELSE (last'.ok /\ ReceivedUnordered(account', clock', port_id, chan_id, seq))
                      => /\ account' # account
                         /\ IsSome(AckOf(account', clock', port_id, chan_id, seq))]_vars

(* A second Recv of a received packet of an unordered channel that is still *)
(* Open was rejected as a duplicate.                                        *)
C18_Witness ==
    /\ last.op = "recv_packet"
    /\ ~last.ok
    /\ last.err = "AcknowledgementExists"
    /\ ReceivedUnordered(account, clock, last.key[2], last.key[3], last.key[4])
    /\ Unwrap(ChannelOf(account, clock, last.key[2], last.key[3])).state = "Open"


(* The packet commitment stored in the account acc, read at slot. *)
CommitmentOf(acc, slot, port_id, chan_id, seq) ==
    get(acc.store, IbcState_new(slot), CommitmentPath(port_id, chan_id, seq))

AckOrTimeout == {"acknowledgement", "timeout"}

(* C19: a packet commitment goes away only in a successful Ack or Timeout   *)
(* of its packet, and a successful Ack or Timeout of a packet whose         *)
(* commitment is stored deletes it; an Ack or Timeout of a packet without a *)
(* commitment writes no value, and a commitment shows up only in a Send,    *)
(* whose sequence SeqSend has then passed: a packet is acknowledged or      *)
(* timed out at most once.                                                  *)
C19_CommitmentDeletedOnlyByAckOrTimeout ==
    [][\A port_id \in ChannelPorts, chan_id \in ChanIds, seq \in Seqs :
          LET before == IsSome(CommitmentOf(account, clock, port_id, chan_id, seq))
              after == IsSome(CommitmentOf(account', clock', port_id, chan_id, seq))
              of_packet == last'.key = CommitmentPath(port_id, chan_id, seq)
          IN  /\ (before /\ ~after) =>
                    last'.ok /\ last'.op \in AckOrTimeout /\ of_packet
              /\ (before /\ last'.ok /\ last'.op \in AckOrTimeout /\ of_packet) =>
                    ~after
              /\ (~before /\ last'.op \in AckOrTimeout /\ of_packet) =>
                    /\ account'.store.value_history = account.store.value_history
                    /\ account'.metadata = account.metadata
              /\ (~before /\ after) =>
                    /\ last'.ok /\ last'.op = "send_packet" /\ of_packet
                    /\ get(account'.store, IbcState_new(clock'),
                           SeqSendPath(port_id, chan_id)) = Some(seq + 1)]_vars

(* The commitment of a sent packet was deleted by an Ack or a Timeout. *)
C19_Witness ==
    /\ last.ok
    /\ last.op \in AckOrTimeout
    /\ ~IsSome(CommitmentOf(account, clock, last.key[2], last.key[3], last.key[4]))
    /\ get(account.store, IbcState_new(clock),
           SeqSendPath(last.key[2], last.key[3])) = Some(last.key[4] + 1)


(* The place of a channel state on Init -> TryOpen -> Open -> Closed. *)
StateRank(state) ==
    CASE state = "Init" -> 1
      [] state = "TryOpen" -> 2
      [] state = "Open" -> 3
      [] state = "Closed" -> 4

(* C20: over the channel and packet messages, successful and failed, a      *)
(* stored channel end stays stored, keeps its ordering and connection, and  *)
(* its state stays or moves forward along Init -> TryOpen -> Open ->        *)
(* Closed; a Closed channel end stays Closed.                               *)
C20_ChannelStateOnlyMovesForward ==
    [][\A port_id \in ChannelPorts, chan_id \in ChanIds :
          LET before == ChannelOf(account, clock, port_id, chan_id)
              after == ChannelOf(account', clock', port_id, chan_id)
          IN  (account' # account /\ IsSome(before)) =>
                /\ IsSome(after)
                /\ Unwrap(after).ordering = Unwrap(before).ordering
                /\ Unwrap(after).connection_hops = Unwrap(before).connection_hops
                /\ StateRank(Unwrap(after).state) >= StateRank(Unwrap(before).state)
                /\ Unwrap(before).state = "Closed" => Unwrap(after).state = "Closed"
                /\ Unwrap(after).state # Unwrap(before).state =>
                      /\ last'.ok
                      /\ last'.key[2] = port_id
                      /\ last'.key[3] = chan_id]_vars

(* A Closed channel turned down a handshake message that would have opened *)
(* it again.                                                                *)
C20_Witness ==
    /\ last.op \in {"chan_open_ack", "chan_open_confirm"}
    /\ ~last.ok
    /\ last.err = "InvalidChannelState"
    /\ IsSome(ChannelOf(account, clock, last.key[2], last.key[3]))
    /\ Unwrap(ChannelOf(account, clock, last.key[2], last.key[3])).state = "Closed"


(* C21: a connection end comes into being only in a successful OpenInit,    *)
(* in Init, or OpenTry, in TryOpen; its state changes only in a successful  *)
(* OpenAck, from Init to Open, or OpenConfirm, from TryOpen to Open;        *)
(* OpenAck or OpenConfirm on an end in any other state fails with the       *)
(* account left as it was; a stored end stays stored with its client, and   *)
(* an Open end stays Open.                                                  *)
C21_ConnectionOpensThroughHandshake ==
    [][\A conn_id \in ConnIds :
          LET before == ConnectionOf(account, clock, conn_id)
              after == ConnectionOf(account', clock', conn_id)
              of_conn == last'.key = ConnectionPath(conn_id)
          IN  /\ (~IsSome(before) /\ IsSome(after)) =>
                    /\ last'.ok /\ of_conn
                    /\ \/ last'.op = "conn_open_init" /\ Unwrap(after).state = "Init"
                       \/ last'.op = "conn_open_try" /\ Unwrap(after).state = "TryOpen"
              /\ IsSome(before) =>
                    /\ IsSome(after)
                    /\ Unwrap(after).client_id = Unwrap(before).client_id
                    /\ Unwrap(before).state = "Open" => Unwrap(after).state = "Open"
                    /\ Unwrap(after).state # Unwrap(before).state =>
                          /\ last'.ok /\ of_conn
                          /\ Unwrap(after).state = "Open"
                          /\ \/ last'.op = "conn_open_ack"
                                   /\ Unwrap(before).state = "Init"
                             \/ last'.op = "conn_open_confirm"
                                   /\ Unwrap(before).state = "TryOpen"
                    /\ (of_conn /\ last'.op \in {"conn_open_ack", "conn_open_confirm"}
                           /\ Unwrap(before).state # ConnStateFor(last'.op)) =>
                          /\ ~last'.ok
                          /\ last'.err = "ConnectionMismatch"
                          /\ account' = account
                    /\ (of_conn /\ last'.ok
                           /\ last'.op \in {"conn_open_ack", "conn_open_confirm"}) =>
                          Unwrap(after).state = "Open"]_vars

(* OpenAck was turned down on an Open connection end, with another end     *)
(* still in Init.                                                           *)
C21_Witness ==
    /\ last.op = "conn_open_ack"
    /\ ~last.ok
    /\ last.err = "ConnectionMismatch"
    /\ \E conn_id \in ConnIds :
          /\ last.key = ConnectionPath(conn_id)
          /\ ConnectionOf(account, clock, conn_id) = Some(ConnectionEnd("Open", 0))
    /\ \E conn_id \in ConnIds :
          /\ IsSome(ConnectionOf(account, clock, conn_id))
          /\ Unwrap(ConnectionOf(account, clock, conn_id)).state = "Init"


(* C22: a proof that get_proof(p) returned from an overlay at version v     *)
(* verifies, through verify_membership with p's path and p's stored value,  *)
(* against the root of the store at v, whatever was committed between p's   *)
(* last write and v.                                                        *)
C22_ProofVerifiesAtOverlayVersion ==
    (last.op = "get_proof" /\ last.ok /\ overlay.open
        /\ IsSome(get_root_option(store, overlay.version)))
    => verify_membership("ibc", Unwrap(last.res),
                         Unwrap(get_root_option(store, overlay.version)),
                         last.key,
                         Unwrap(jmt_get(store, last.key, overlay.version)))


----------------------------------------------------------------------------
(* SpecChain: the conversions between slots and heights, applied to slots   *)
(* and heights at both ends of the 64-bit range, and the host height of a   *)
(* handler at the slot of the clock.                                        *)

LimbSamples == {0, 1, Limb - 2, Limb - 1}
ChainSlots == LimbSamples \X LimbSamples \X LimbSamples \X LimbSamples
ChainHeights ==
    [revision_number : {REVISION_NUMBER, REVISION_NUMBER + 1},
     revision_height : ChainSlots \ {u64(0)}]

ChainCall(op, arg, r) ==
    [op |-> op, key |-> NoKey, arg |-> arg, res |-> r.val, ok |-> r.ok, err |-> r.err]

HeightOfSlot(slot) ==
    /\ last' = ChainCall("height_of_slot", slot, height_of_slot(slot))
    /\ UNCHANGED <<store, overlay, commits, committed, account, clock>>

SlotOfHeight(height) ==
    /\ last' = ChainCall("slot_of_height", height, slot_of_height(height))
    /\ UNCHANGED <<store, overlay, commits, committed, account, clock>>

HostHeight ==
    /\ last' = ChainCall("host_height", clock,
                         host_height(IbcHandler_new(account.store, account.metadata, clock).h))
    /\ UNCHANGED <<store, overlay, commits, committed, account, clock>>

NextChain ==
    \/ \E slot \in ChainSlots : HeightOfSlot(slot)
    \/ \E height \in ChainHeights : SlotOfHeight(height)
    \/ HostHeight
    \/ Tick

SpecChain == Init /\ [][NextChain]_vars

(* y = x + 1 on 64-bit values, stated limb by limb: above some limb the two *)
(* agree, at it y is one more, and below it x is all ones and y all zeros.  *)
IsSuccessor(x, y) ==
    \E i \in 1..4 :
        /\ \A j \in 1..(i - 1) : y[j] = x[j]
        /\ y[i] = x[i] + 1
        /\ \A j \in (i + 1)..4 : x[j] = Limb - 1 /\ y[j] = 0

(* C23: height_of_slot(s) is the height (0, s + 1) and slot_of_height of    *)
(* (0, h) is h - 1, so the two are inverse on every slot below 2^64 - 1;    *)
(* height_of_slot(2^64 - 1) and slot_of_height of a height of another       *)
(* revision number are InvalidHeight; host_height is height_of_slot of the  *)
(* current slot.                                                            *)
C23_HeightAndSlotAreInverse ==
    /\ last.op = "height_of_slot" =>
          IF last.arg = U64_MAX
          THEN ~last.ok /\ last.err = "InvalidHeight"
          ELSE /\ last.ok
               /\ last.res.revision_number = 0
               /\ IsSuccessor(last.arg, last.res.revision_height)
               /\ slot_of_height(last.res) = ChainOk(last.arg)
    /\ last.op = "slot_of_height" =>
          IF last.arg.revision_number # 0
          THEN ~last.ok /\ last.err = "InvalidHeight"
          ELSE /\ last.ok
               /\ IsSuccessor(last.res, last.arg.revision_height)
               /\ height_of_slot(last.res) = ChainOk(last.arg)
    /\ last.op = "host_height" =>
          /\ last.ok
          /\ last.res.revision_number = 0
          /\ last.res.revision_height = <<0, 0, 0, last.arg + 1>>

(* The slot 2^64 - 1 has no height. *)
C23_Witness ==
    /\ last.op = "height_of_slot"
    /\ last.arg = U64_MAX
    /\ ~last.ok
    /\ last.err = "InvalidHeight"


----------------------------------------------------------------------------
(* SpecParse: the instruction envelope.  The instruction data is the Borsh  *)
(* encoding of IbcContractInstruction; the payload is put together from the *)
(* data of the first instruction accounts and the last part, and decoded;   *)
(* the accounts of the instruction are read after the extra accounts.       *)
(* An instruction account is [key, owner, is_signer, data].                 *)

MaxAccounts == 5            \* instruction accounts of one instruction

(* BorshSerialize for IbcContractInstruction: IndexOfAccount (u16) in       *)
(* little endian, then the length of the vector (u32) in little endian and  *)
(* its bytes.                                                               *)
BorshSerialize(extra_accounts_for_instruction, last_instruction_part) ==
    LET len == Len(last_instruction_part)
    IN  <<extra_accounts_for_instruction % Byte,
          (extra_accounts_for_instruction \div Byte) % Byte,
          len % Byte, (len \div Byte) % Byte, (len \div (Byte * Byte)) % Byte, 0>>
        \o last_instruction_part

(* BorshDeserialize::try_from_slice: the slice must hold the two fields and *)
(* nothing after them.                                                      *)
BorshDeserialize(instruction_data) ==
    IF Len(instruction_data) < 6 THEN None
    ELSE LET extra == instruction_data[1] + Byte * instruction_data[2]
             len == instruction_data[3] + Byte * instruction_data[4]
                    + Byte * Byte * instruction_data[5]
                    + Byte * Byte * Byte * instruction_data[6]
         IN  IF Len(instruction_data) - 6 # len THEN None
             ELSE Some([extra_accounts_for_instruction |-> extra,
                        last_instruction_part |-> SubSeq(instruction_data, 7, 6 + len)])

(* The payloads that protobuf::Any::decode and the conversion into an       *)
(* IbcInstruction accept, with the instruction each one is the encoding of. *)
EncodedInstructions ==
    (<<1, 2, 3>> :> "Router") @@ (<<2, 1>> :> "Bind") @@ (<<2, 2>> :> "Release")

(* The loop of parse_instruction over the extra accounts, from              *)
(* account_index on.                                                        *)
RECURSIVE extra_accounts_data(_, _, _)
extra_accounts_data(accounts, account_index, extra_accounts_for_instruction) ==
    IF account_index >= extra_accounts_for_instruction THEN <<>>
    ELSE accounts[account_index + 1].data
         \o extra_accounts_data(accounts, account_index + 1, extra_accounts_for_instruction)

ParseErr(err) == [ok |-> FALSE, err |-> err, ibc_instruction |-> "",
                  ibc_instruction_data |-> <<>>, account_offset |-> 0]

(* ibc_contract_instruction::parse_instruction *)
parse_instruction_from_zero(accounts, instruction_data) ==
    LET decoded == BorshDeserialize(instruction_data)
    IN  IF ~IsSome(decoded) THEN ParseErr("InvalidInstructionData")
        ELSE LET extra_accounts_for_instruction ==
                     Unwrap(decoded).extra_accounts_for_instruction
             IN  IF extra_accounts_for_instruction > Len(accounts)
                 THEN ParseErr("NotEnoughAccountKeys")
                 ELSE LET ibc_instruction_data ==
                              extra_accounts_data(accounts, 0, extra_accounts_for_instruction)
                              \o Unwrap(decoded).last_instruction_part
                      IN  IF ibc_instruction_data \notin DOMAIN EncodedInstructions
                          THEN ParseErr("InvalidInstructionData")
                          ELSE [ok |-> TRUE, err |-> "",
                                ibc_instruction |-> EncodedInstructions[ibc_instruction_data],
                                ibc_instruction_data |-> ibc_instruction_data,
                                account_offset |-> 0]

parse_instruction(accounts, instruction_data) ==
    LET decoded == BorshDeserialize(instruction_data)
    IN  IF ~IsSome(decoded) THEN ParseErr("InvalidInstructionData")
        ELSE LET extra_accounts_for_instruction ==
                     Unwrap(decoded).extra_accounts_for_instruction
             IN  IF extra_accounts_for_instruction > Len(accounts)
                 THEN ParseErr("NotEnoughAccountKeys")
                 ELSE LET ibc_instruction_data ==
                              extra_accounts_data(accounts, 0, extra_accounts_for_instruction)
                              \o Unwrap(decoded).last_instruction_part
                      IN  IF ibc_instruction_data \notin DOMAIN EncodedInstructions
                          THEN ParseErr("InvalidInstructionData")
                          ELSE [ok |-> TRUE, err |-> "",
                                ibc_instruction |-> EncodedInstructions[ibc_instruction_data],
                                ibc_instruction_data |-> ibc_instruction_data,
                                account_offset |-> extra_accounts_for_instruction]

STORAGE_KEY == "storage"
CLOCK_ID == "clock"
PROGRAM_ID == "ibc"

AccountsErr(parsed, err) ==
    [ok |-> FALSE, err |-> err, parsed |-> parsed,
     payer_key |-> "", storage_key |-> "", clock_key |-> ""]

(* process_instruction up to the handler of a Router or Port instruction:   *)
(* the payer is the account at account_offset and must have signed;         *)
(* with_ibc_handler needs account_offset + 3 accounts, takes the storage    *)
(* account at account_offset + 1, owned by the program and at STORAGE_KEY,  *)
(* and the Clock sysvar at account_offset + 2.                              *)
process_instruction_accounts(accounts, instruction_data) ==
    LET parsed == parse_instruction(accounts, instruction_data)
        account_offset == parsed.account_offset
    IN  IF ~parsed.ok THEN AccountsErr(parsed, parsed.err)
        ELSE IF account_offset >= Len(accounts)
        THEN AccountsErr(parsed, "NotEnoughAccountKeys")
        ELSE IF ~accounts[account_offset + 1].is_signer
        THEN AccountsErr(parsed, "MissingRequiredSignature")
        ELSE IF Len(accounts) < account_offset + 3
        THEN AccountsErr(parsed, "NotEnoughAccountKeys")
        ELSE IF accounts[account_offset + 2].owner # PROGRAM_ID
        THEN AccountsErr(parsed, "InvalidAccountOwner")
        ELSE IF accounts[account_offset + 2].key # STORAGE_KEY
        THEN AccountsErr(parsed, "InvalidArgument")
        ELSE IF accounts[account_offset + 3].key # CLOCK_ID
        THEN AccountsErr(parsed, "InvalidArgument")
        ELSE [ok |-> TRUE, err |-> "", parsed |-> parsed,
              payer_key |-> accounts[account_offset + 1].key,
              storage_key |-> accounts[account_offset + 2].key,
              clock_key |-> accounts[account_offset + 3].key]

InstructionAccounts ==
    { [key |-> "payer", owner |-> "system", is_signer |-> TRUE, data |-> <<>>],
      [key |-> STORAGE_KEY, owner |-> PROGRAM_ID, is_signer |-> FALSE, data |-> <<1>>],
      [key |-> CLOCK_ID, owner |-> "sysvar", is_signer |-> FALSE, data |-> <<2>>],
      [key |-> "buffer", owner |-> PROGRAM_ID, is_signer |-> FALSE, data |-> <<1, 2>>] }

AccountLists == UNION { [1..n -> InstructionAccounts] : n \in 0..MaxAccounts }

LastParts == {<<>>, <<3>>, <<1, 2, 3>>, <<2, 1>>}

InstructionDatas ==
    { BorshSerialize(extra, part) : extra \in 0..(MaxAccounts - 2), part \in LastParts }
    \cup { <<>>, <<0, 0, 1, 0, 0, 0>>, BorshSerialize(0, <<2, 1>>) \o <<0>> }

(* One instruction of a transaction: its accounts and its data. *)
InitParse ==
    /\ store = EmptyStore
    /\ overlay = Closed
    /\ \E accounts \in AccountLists, instruction_data \in InstructionDatas :
          last = [op |-> "instruction", key |-> NoKey,
                  arg |-> [accounts |-> accounts, instruction_data |-> instruction_data],
                  res |-> None, ok |-> TRUE, err |-> ""]
    /\ commits = 0
    /\ committed = NoCommit
    /\ account = InitAccount
    /\ clock = 0

ProcessInstructionAccounts ==
    /\ last.op = "instruction"
    /\ \E r \in {process_instruction_accounts(last.arg.accounts,
                                               last.arg.instruction_data)} :
          last' = [last EXCEPT !.op = "process_instruction",
                               !.res = r, !.ok = r.ok, !.err = r.err]
    /\ UNCHANGED <<store, overlay, commits, committed, account, clock>>

NextParse == ProcessInstructionAccounts

SpecParse == InitParse /\ [][NextParse]_vars

(* The position in the payload at which the data of account i starts. *)
RECURSIVE DataStart(_, _)
DataStart(accounts, i) ==
    IF i = 1 THEN 1 ELSE DataStart(accounts, i - 1) + Len(accounts[i - 1].data)

(* C24: when parse_instruction succeeds, the payload is the data of the     *)
(* first extra_account_count instruction accounts in index order followed   *)
(* by last_part, the account offset is extra_account_count, and the signer, *)
(* storage and clock accounts are the ones at offset, offset + 1 and        *)
(* offset + 2.                                                              *)
C24_PayloadReassembledAndOffset ==
    (last.op = "process_instruction" /\ last.res.parsed.ok) =>
        LET accounts == last.arg.accounts
            n == last.arg.instruction_data[1] + Byte * last.arg.instruction_data[2]
            last_part == SubSeq(last.arg.instruction_data, 7, Len(last.arg.instruction_data))
            payload == last.res.parsed.ibc_instruction_data
            rest == DataStart(accounts, n + 1)
        IN  /\ last.arg.instruction_data = BorshSerialize(n, last_part)
            /\ n <= Len(accounts)
            /\ \A i \in 1..n :
                  SubSeq(payload, DataStart(accounts, i),
                         DataStart(accounts, i) + Len(accounts[i].data) - 1)
                  = accounts[i].data
            /\ SubSeq(payload, rest, Len(payload)) = last_part
            /\ Len(payload) = rest - 1 + Len(last_part)
            /\ last.res.parsed.account_offset = n
            /\ last.ok =>
                  /\ last.res.payer_key = accounts[n + 1].key
                  /\ accounts[n + 1].is_signer
                  /\ last.res.storage_key = accounts[n + 2].key
                  /\ last.res.clock_key = accounts[n + 3].key

(* A payload in three pieces, two of them in extra accounts, with the       *)
(* signer, the storage account and the clock after them.                    *)
C24_Witness ==
    /\ last.op = "process_instruction"
    /\ last.ok
    /\ last.res.parsed.account_offset = 2
    /\ last.res.parsed.ibc_instruction_data = <<1, 2, 3>>
    /\ last.arg.accounts[1].data = <<1>>
    /\ last.arg.accounts[2].data = <<2>>
    /\ last.res.payer_key = "payer"


----------------------------------------------------------------------------
(* SpecBuffer: IbcInstruction::Admin(WriteTxBuffer) on one buffer account.  *)
(* A buffer account is None before it is created and Some([owner, data])    *)
(* after; mode is [kind |-> "Create", buffer_size] or [kind |-> "Reuse",    *)
(* offset].  The buffer account is the account the transaction lists after  *)
(* the payer, whatever its key (buffer_key) is: the account of              *)
(* STORAGE_KEY, whose data is the IBC store and the id counters, or any     *)
(* other one.                                                               *)

MaxBuffer == 3              \* bytes of a buffer account

RECURSIVE Zeros(_)
Zeros(n) == IF n = 0 THEN <<>> ELSE <<0>> \o Zeros(n - 1)

BufferResult(ok, err, buffer_account) ==
    [ok |-> ok, err |-> err, buffer_account |-> buffer_account]

(* create_tx_buffer: system_instruction::create_account of buffer_size      *)
(* bytes owned by the program; the system program refuses an account that   *)
(* is in use.                                                               *)
create_tx_buffer(buffer_account, buffer_size) ==
    IF IsSome(buffer_account)
    THEN BufferResult(FALSE, "AccountAlreadyInUse", buffer_account)
    ELSE BufferResult(TRUE, "", Some([owner |-> PROGRAM_ID, data |-> Zeros(buffer_size)]))

(* write_to_tx_buffer: the data of the account is borrowed mutably, sliced  *)
(* at data_offset .. data_offset + data.len() (a slice out of range         *)
(* panics), the length of the slice is compared with the length of the      *)
(* data, and the data copied.                                               *)
write_to_tx_buffer(buffer_account, data_offset, data) ==
    IF ~IsSome(buffer_account) \/ Unwrap(buffer_account).owner # PROGRAM_ID
    THEN BufferResult(FALSE, "ExternalAccountDataModified", buffer_account)
    ELSE LET account_data == Unwrap(buffer_account).data
         IN  IF data_offset + Len(data) > Len(account_data)
             THEN BufferResult(FALSE, "panic", buffer_account)
             ELSE LET buffer == SubSeq(account_data, data_offset + 1,
                                       data_offset + Len(data))
                  IN  IF Len(buffer) # Len(data)
                      THEN BufferResult(FALSE, "Custom(STORAGE_ERR_CODE)", buffer_account)
                      ELSE BufferResult(TRUE, "",
                               Some([owner |-> PROGRAM_ID,
                                     data |-> SubSeq(account_data, 1, data_offset)
                                              \o data
                                              \o SubSeq(account_data,
                                                        data_offset + Len(data) + 1,
                                                        Len(account_data))]))

(* process_instruction for IbcInstruction::Admin(WriteTxBuffer) *)
write_tx_buffer(buffer_account, mode, data) ==
    IF mode.kind = "Create"
    THEN LET created == create_tx_buffer(buffer_account, mode.buffer_size)
         IN  IF ~created.ok THEN created
             ELSE LET written == write_to_tx_buffer(created.buffer_account, 0, data)
                  IN  IF written.ok THEN written
                      ELSE BufferResult(FALSE, written.err, buffer_account)
    ELSE write_to_tx_buffer(buffer_account, mode.offset, data)

BufferBytes == {0, 1}
BufferDatas == UNION { [1..n -> BufferBytes] : n \in 0..MaxBuffer }
BufferAccounts ==
    {None} \cup { Some([owner |-> o, data |-> d]) :
                     o \in {PROGRAM_ID, "system"}, d \in BufferDatas }
BufferModes ==
    [kind : {"Create"}, buffer_size : 0..MaxBuffer]
    \cup [kind : {"Reuse"}, offset : 0..(MaxBuffer + 1)]
TxDatas == UNION { [1..n -> {1, 2}] : n \in 0..(MaxBuffer - 1) }
BufferKeys == {STORAGE_KEY, "buffer"}

InitBuffer ==
    /\ store = EmptyStore
    /\ overlay = Closed
    /\ \E buffer_key \in BufferKeys, buffer_account \in BufferAccounts,
          mode \in BufferModes, data \in TxDatas :
          last = [op |-> "instruction", key |-> NoKey,
                  arg |-> [buffer_key |-> buffer_key, buffer_account |-> buffer_account,
                           mode |-> mode, data |-> data],
                  res |-> None, ok |-> TRUE, err |-> ""]
    /\ commits = 0
    /\ committed = NoCommit
    /\ account = InitAccount
    /\ clock = 0

WriteTxBuffer ==
    /\ last.op = "instruction"
    /\ \E r \in {write_tx_buffer(last.arg.buffer_account, last.arg.mode, last.arg.data)} :
          last' = [last EXCEPT !.op = "write_tx_buffer",
                               !.res = r.buffer_account, !.ok = r.ok, !.err = r.err]
    /\ UNCHANGED <<store, overlay, commits, committed, account, clock>>

NextBuffer == WriteTxBuffer

SpecBuffer == InitBuffer /\ [][NextBuffer]_vars

(* C25: every instruction ends with a classified error and never with a     *)
(* panic; in particular a WriteTxBuffer whose data does not fit in the      *)
(* buffer from the offset, and a RecvPacket whose module fails or returns   *)
(* no data.                                                                 *)
C25_NoInstructionPanics ==
    "err" \in DOMAIN last => last.err # "panic"


(* C26: every failure of a Router message is reported as custom error code  *)
(* 0x97, and every failure of BindPort or ReleasePort as custom error code  *)
(* 0x98.  The failures are those of the message itself, in the closure that *)
(* process_instruction hands to with_ibc_handler.                           *)
RouterOps ==
    {"create_client", "update_client", "upgrade_client",
     "conn_open_init", "conn_open_try", "conn_open_ack", "conn_open_confirm",
     "chan_open_init", "chan_open_try", "chan_open_ack", "chan_open_confirm",
     "chan_close_init", "chan_close_confirm",
     "recv_packet", "acknowledgement", "timeout"}

PortOps == {"bind_port", "release_port"}

C26_FailuresCarryTheirCode ==
    ("code" \in DOMAIN last /\ ~last.ok /\ last.res = Some("handler")) =>
        /\ last.op \in RouterOps => last.code = Custom(ROUTER_ERR_CODE)
        /\ last.op \in PortOps => last.code = Custom(PORT_ERR_CODE)

----------------------------------------------------------------------------
(* SpecStorage: instructions on a host that may hand out account data that  *)
(* does not deserialize, or refuse the new account data.                    *)

BindPortOn(port_id, payer_key, synth_root, host) ==
    LET f == [kind |-> "bind_port", port_id |-> port_id, payer_key |-> payer_key]
    IN  /\ commits < MaxInstr
        /\ Instruction("bind_port", PortPath(port_id), payer_key,
                       with_ibc_handler_on(account, clock, synth_root, f, host))

ReleasePortOn(port_id, payer_key, synth_root, host) ==
    LET f == [kind |-> "release_port", port_id |-> port_id, payer_key |-> payer_key]
    IN  /\ commits < MaxInstr
        /\ Instruction("release_port", PortPath(port_id), payer_key,
                       with_ibc_handler_on(account, clock, synth_root, f, host))

CreateClientOn(cs, synth_root, host) ==
    LET f == [kind |-> "create_client", client_state |-> cs]
    IN  /\ commits < MaxInstr
        /\ Instruction("create_client", NoKey, cs,
                       with_ibc_handler_on(account, clock, synth_root, f, host))

NextStorage ==
    \/ \E synth_root \in BOOLEAN : InitStorageAccount(synth_root)
    \/ \E port_id \in PortIds, payer_key \in Pubkeys, synth_root \in BOOLEAN, host \in Hosts :
          BindPortOn(port_id, payer_key, synth_root, host)
    \/ \E port_id \in PortIds, payer_key \in Pubkeys, synth_root \in BOOLEAN, host \in Hosts :
          ReleasePortOn(port_id, payer_key, synth_root, host)
    \/ \E cs \in ClientStates, synth_root \in BOOLEAN, host \in Hosts :
          CreateClientOn(cs, synth_root, host)
    \/ Tick

SpecStorage == Init /\ [][NextStorage]_vars

(* C27: a failure of the JMT commit, a failure to deserialize the data of   *)
(* the storage account and a failure to write the account back are each     *)
(* reported as custom error code 0x99.                                      *)
C27_StorageFailuresAreStorageError ==
    ("code" \in DOMAIN last /\ ~last.ok
        /\ last.res \in {Some("commit"), Some("read"), Some("write")})
    => last.code = Custom(STORAGE_ERR_CODE)


(* C28: after InitStorageAccount succeeds at slot s, the store of the       *)
(* storage account has the StateInitialized marker readable at version s    *)
(* and at every later version and holds no other key, and the three id      *)
(* counters are 0; at slot 0, version 0 is the latest version of the store.  *)
C28_InitStorageAccountWritesMarker ==
    [][(last'.op = "init_storage_account" /\ last'.ok /\ commits' = commits + 1)
       => /\ account'.initialized
          /\ \A v \in clock..(MaxSlot + 1) :
                get(account'.store, IbcState_new(v), StateInitializedPath) = Some(Unit)
          /\ \A v \in 0..(clock - 1) :
                get(account'.store, IbcState_new(v), StateInitializedPath) = None
          /\ DOMAIN account'.store.value_history = {StateInitializedPath}
          /\ \A v \in DOMAIN account'.store.nodes :
                DOMAIN account'.store.nodes[v] \subseteq {StateInitializedPath}
          /\ account'.metadata = [client_id_counter |-> 0,
                                  connection_id_counter |-> 0,
                                  channel_id_counter |-> 0]
          /\ clock = 0 => DOMAIN account'.store.nodes = {0}
    ]_vars

(* The storage account right after InitStorageAccount at slot 0, read at a  *)
(* later version.                                                           *)
C28_Witness ==
    /\ last.op = "init_storage_account"
    /\ last.ok
    /\ clock = 0
    /\ DOMAIN account.store.nodes = {0}
    /\ get(account.store, IbcState_new(MaxSlot), StateInitializedPath) = Some(Unit)


----------------------------------------------------------------------------
(* SpecSigner: the signer field of a Router message, from the instruction   *)
(* that is submitted to the envelope that is dispatched.  An envelope is    *)
(* [msg, signer]; an instruction is [payer_key, is_signer, envelope].       *)

(* Pubkey::to_string: the base58 form of the key *)
to_string(pubkey) == <<"base58", pubkey>>

(* TxKind::instruction_data of the command line client: the signer of the   *)
(* message is the payer key as a string.                                    *)
instruction_data(payer_key, msg) ==
    [msg |-> msg, signer |-> to_string(payer_key)]

(* process_instruction for IbcInstruction::Router, up to dispatch: the      *)
(* payer must have signed, payer_key is taken from the account, and the     *)
(* envelope of the instruction is handed to dispatch.                       *)
dispatch_router(payer_key, is_signer, envelope) ==
    IF ~is_signer
    THEN [ok |-> FALSE, code |-> InstructionError("MissingRequiredSignature"),
          envelope |-> None]
    ELSE [ok |-> TRUE, code |-> NoError, envelope |-> Some(envelope)]

SignerFields == {to_string(k) : k \in Pubkeys} \cup {<<"base58", 0>>}

(* The instructions a transaction can carry: built by the command line      *)
(* client for its payer, or built by any other client with a signer field   *)
(* of its choice.                                                           *)
SubmittedInstructions ==
    { [payer_key |-> k, is_signer |-> sg, envelope |-> instruction_data(k, m)] :
         k \in Pubkeys, sg \in BOOLEAN, m \in RouterOps }
    \cup { [payer_key |-> k, is_signer |-> sg, envelope |-> [msg |-> m, signer |-> f]] :
              k \in Pubkeys, sg \in BOOLEAN, m \in RouterOps, f \in SignerFields }

InitSigner ==
    /\ store = EmptyStore
    /\ overlay = Closed
    /\ \E instruction \in SubmittedInstructions :
          last = [op |-> "instruction", key |-> NoKey, arg |-> instruction,
                  res |-> None, ok |-> TRUE, code |-> NoError]
    /\ commits = 0
    /\ committed = NoCommit
    /\ account = InitAccount
    /\ clock = 0

DispatchRouter ==
    /\ last.op = "instruction"
    /\ \E r \in {dispatch_router(last.arg.payer_key, last.arg.is_signer,
                                 last.arg.envelope)} :
          last' = [last EXCEPT !.op = "dispatch", !.res = r.envelope,
                               !.ok = r.ok, !.code = r.code]
    /\ UNCHANGED <<store, overlay, commits, committed, account, clock>>

NextSigner == DispatchRouter

SpecSigner == InitSigner /\ [][NextSigner]_vars

(* C29: the signer field of every Router message that is dispatched is the  *)
(* public key, as a string, of the account that signed the instruction,     *)
(* whatever signer the submitted message carried.                           *)
C29_DispatchedSignerIsPayer ==
    (last.op = "dispatch" /\ last.ok)
    => Unwrap(last.res).signer = to_string(last.arg.payer_key)


(* C30: after commit() returns, whether it succeeded or failed, the         *)
(* pending changes of the overlay are empty.                                *)
C30_CommitEmptiesPending ==
    [][(last'.op = "commit" /\ commits' = commits + 1)
       => /\ overlay'.pending = EmptyMap
          /\ overlay'.version = overlay.version
          /\ overlay'.open
    ]_vars

(* A commit at version 0 that failed: only write_node_batch can refuse it,  *)
(* and it refuses a value, so the overlay held pending changes; it holds    *)
(* none now.                                                                *)
C30_Witness ==
    /\ last.op = "commit"
    /\ ~last.ok
    /\ last.arg = 0
    /\ overlay.open
    /\ overlay.version = 0
    /\ overlay.pending = EmptyMap


(* The versions the store holds something at: the versions of its root     *)
(* nodes and the versions of the entries of its value history.             *)
StoreVersions(s) ==
    DOMAIN s.nodes \cup UNION {DOMAIN s.value_history[k] : k \in DOMAIN s.value_history}

(* C31: a commit with no pending changes creates no version: the versions   *)
(* at which the store holds a root node or a value entry are the same       *)
(* after it as before it.                                                   *)
C31_EmptyCommitCreatesNoVersion ==
    [][(last'.op = "commit" /\ commits' = commits + 1 /\ overlay.pending = EmptyMap)
       => StoreVersions(store') = StoreVersions(store)
    ]_vars


---------------------------------------------------------------------------
(* SpecClient: the storage account under CreateClient and UpdateClient of   *)
(* host clients, with headers of any content and client states of any       *)
(* chain.                                                                   *)

(* The headers a message can carry: at each height, blocks with different   *)
(* roots and times.                                                         *)
Headers ==
    {EclipseHeader(height, 10 + block, 20 + block) :
        height \in ClientHeights, block \in {1, 2}}

HostClientStates ==
    {EclipseClientState(chain_id, latest_header, frozen_height) :
        chain_id \in {"eclipse", "eclipse-2"}, latest_header \in Headers,
        frozen_height \in {None, Some(1)}}

(* IbcInstruction::Router(MsgUpdateClient) carrying `header` *)
UpdateClientHeader(client_id, header, synth_root) ==
    LET f == [kind |-> "update_client", client_id |-> client_id, header |-> header]
    IN  /\ commits < MaxInstr
        /\ Instruction("update_client", ClientStatePath(client_id), header,
                       with_ibc_handler(account, clock, synth_root, f))

(* A handler of an instruction at the slot of the Clock asks for the        *)
(* consensus state after `height`.                                          *)
NextConsensusState(client_id, height) ==
    /\ account.initialized
    /\ \E r \in {next_consensus_state(account.store,
                       IbcHandler_new(account.store, account.metadata, clock).h,
                       client_id, height)} :
          last' = [op |-> "next_consensus_state", key |-> ClientStatePath(client_id),
                   arg |-> height, res |-> r.val, ok |-> r.ok, err |-> r.err,
                   code |-> NoError]
    /\ UNCHANGED <<store, overlay, commits, committed, account, clock>>

(* The same for the consensus state before `height`. *)
PrevConsensusState(client_id, height) ==
    /\ account.initialized
    /\ \E r \in {prev_consensus_state(account.store,
                       IbcHandler_new(account.store, account.metadata, clock).h,
                       client_id, height)} :
          last' = [op |-> "prev_consensus_state", key |-> ClientStatePath(client_id),
                   arg |-> height, res |-> r.val, ok |-> r.ok, err |-> r.err,
                   code |-> NoError]
    /\ UNCHANGED <<store, overlay, commits, committed, account, clock>>

NextClient ==
    \/ \E synth_root \in BOOLEAN : InitStorageAccount(synth_root)
    \/ \E cs \in HostClientStates, synth_root \in BOOLEAN : CreateClient(cs, synth_root)
    \/ \E client_id \in ClientIds, header \in Headers, synth_root \in BOOLEAN :
          UpdateClientHeader(client_id, header, synth_root)
    \/ \E client_id \in ClientIds, height \in ClientHeights :
          NextConsensusState(client_id, height)
    \/ \E client_id \in ClientIds, height \in ClientHeights :
          PrevConsensusState(client_id, height)
    \/ Tick

SpecClient == Init /\ [][NextClient]_vars

ConsensusStateOf(acc, slot, c, height) ==
    get(acc.store, IbcState_new(slot), ClientConsensusStatePath(c, height))

ConsensusHeightsOf(acc, slot, c) ==
    LET r == get(acc.store, IbcState_new(slot), ConsensusHeightsPath(c))
    IN  IF IsSome(r) THEN Unwrap(r) ELSE {}

UpdateTimeOf(acc, slot, c, height) ==
    get(acc.store, IbcState_new(slot), ClientUpdateTimePath(c, height))

UpdateHeightOf(acc, slot, c, height) ==
    get(acc.store, IbcState_new(slot), ClientUpdateHeightPath(c, height))

(* C32: after a successful UpdateClient(c, header) on a host client, the    *)
(* client state has latest_header = header with the chain id and the frozen *)
(* height it had; ClientConsensusState(c, header.height) holds the          *)
(* commitment root and the timestamp of the header; header.height is in     *)
(* ConsensusHeights(c); ClientUpdateTime(c, header.height) and              *)
(* ClientUpdateHeight(c, header.height) hold the host timestamp and the     *)
(* host height of the instruction.                                          *)
C32_UpdateClientStoresHeader ==
    [][(commits' = commits + 1 /\ last'.op = "update_client" /\ last'.ok)
       => \E c \in {last'.key[2]}, header \in {last'.arg} :
            \E before \in {ClientStateOf(account, clock, c)} :
              /\ IsSome(before)
              /\ ClientStateOf(account', clock, c)
                   = Some([chain_id |-> Unwrap(before).chain_id,
                           latest_header |-> header,
                           frozen_height |-> Unwrap(before).frozen_height])
              /\ ConsensusStateOf(account', clock, c, header.height)
                   = Some([commitment_root |-> header.commitment_root,
                           timestamp |-> header.timestamp])
              /\ header.height \in ConsensusHeightsOf(account', clock, c)
              /\ UpdateTimeOf(account', clock, c, header.height) = Some(clock)
              /\ UpdateHeightOf(account', clock, c, header.height)
                   = Some([revision_number |-> REVISION_NUMBER,
                           revision_height |-> u64(clock + 1)])
    ]_vars

(* An update at a later slot than the creation, of a client of the second   *)
(* chain, with a header whose root and time differ from the ones of the     *)
(* header the client was created with.                                      *)
C32_Witness ==
    /\ last.op = "update_client"
    /\ last.ok
    /\ clock > 0
    /\ last.arg.commitment_root = 12
    /\ IsSome(ClientStateOf(account, clock, last.key[2]))
    /\ Unwrap(ClientStateOf(account, clock, last.key[2])).chain_id = "eclipse-2"
    /\ ConsensusStateOf(account, clock, last.key[2], 1)
         = Some([commitment_root |-> 11, timestamp |-> 21])
    /\ ConsensusStateOf(account, clock, last.key[2], 2)
         = Some([commitment_root |-> 12, timestamp |-> 22])


(* The bytes of `after` are those of `before` with `data` at                *)
(* [offset, offset + Len(data)).                                            *)
WrittenAt(before, after, offset, data) ==
    /\ Len(after) = Len(before)
    /\ offset + Len(data) <= Len(after)
    /\ \A i \in 1..Len(after) :
          after[i] = IF i > offset /\ i <= offset + Len(data)
                     THEN data[i - offset] ELSE before[i]

(* C33: WriteTxBuffer writes data into the buffer account at the bytes      *)
(* [offset, offset + len(data)), with offset 0 in Create mode, and leaves   *)
(* every other byte of the buffer as it was (as it was created, in Create   *)
(* mode); it never modifies the IBC storage account, which holds the store  *)
(* and the id counters.                                                     *)
C33_WriteTxBufferTouchesOnlyBuffer ==
    last.op = "write_tx_buffer"
    => /\ (last.ok /\ last.arg.mode.kind = "Create")
          => /\ IsSome(last.res)
             /\ WrittenAt(Zeros(last.arg.mode.buffer_size), Unwrap(last.res).data,
                          0, last.arg.data)
       /\ (last.ok /\ last.arg.mode.kind = "Reuse")
          => /\ IsSome(last.res)
             /\ WrittenAt(Unwrap(last.arg.buffer_account).data, Unwrap(last.res).data,
                          last.arg.mode.offset, last.arg.data)
       /\ ~last.ok => last.res = last.arg.buffer_account
       /\ last.arg.buffer_key = STORAGE_KEY => last.res = last.arg.buffer_account


---------------------------------------------------------------------------
(* SpecAccounts: one Router or Port instruction with any list of accounts,  *)
(* on a storage account that is initialized or not, on any host.            *)

(* The closure process_instruction hands to with_ibc_handler for the        *)
(* instruction the payload decodes to; the Port instructions are signed by  *)
(* the key the handler knows the payer by.                                  *)
InstructionClosures ==
    ("Router" :> [kind |-> "create_client",
                  client_state |-> EclipseClientState("eclipse", HeaderAt(1), None)])
    @@ ("Bind" :> [kind |-> "bind_port", port_id |-> 1, payer_key |-> 1])
    @@ ("Release" :> [kind |-> "release_port", port_id |-> 1, payer_key |-> 1])

(* process_instruction reading the account data before it checks the payer *)
(* and the storage account.                                                 *)
process_instruction_read_first(accounts, instruction_bytes, acc, slot, synth_root, host) ==
    LET checked == process_instruction_accounts(accounts, instruction_bytes)
    IN  IF ~read_from_account(acc, host).ok
        THEN [ok |-> FALSE, stage |-> Some("read"), err |-> "",
              code |-> read_from_account(acc, host).code, account |-> acc]
        ELSE IF ~checked.ok
        THEN [ok |-> FALSE, stage |-> Some("account"), err |-> "",
              code |-> InstructionError(checked.err), account |-> acc]
        ELSE with_ibc_handler_on(acc, slot, synth_root,
                                 InstructionClosures[checked.parsed.ibc_instruction], host)

(* process_instruction for a Router or Port instruction: the instruction is *)
(* parsed, the payer and the accounts of with_ibc_handler are checked, and  *)
(* with_ibc_handler reads the account data, runs the closure, commits and   *)
(* writes the data back.                                                    *)
process_instruction(accounts, instruction_bytes, acc, slot, synth_root, host) ==
    LET checked == process_instruction_accounts(accounts, instruction_bytes)
    IN  IF ~checked.ok
        THEN [ok |-> FALSE, stage |-> Some("account"), err |-> "",
              code |-> InstructionError(checked.err), account |-> acc]
        ELSE with_ibc_handler_on(acc, slot, synth_root,
                                 InstructionClosures[checked.parsed.ibc_instruction], host)

(* The storage account as the transaction sees it: owned by the program     *)
(* once InitStorageAccount has created it, by the system program before.    *)
StorageAccountOf(acc) ==
    [key |-> STORAGE_KEY, owner |-> IF acc.initialized THEN PROGRAM_ID ELSE "system",
     is_signer |-> FALSE, data |-> <<>>]

TxAccounts(acc) ==
    { [key |-> "payer", owner |-> "system", is_signer |-> TRUE, data |-> <<>>],
      [key |-> "other", owner |-> "system", is_signer |-> FALSE, data |-> <<>>],
      StorageAccountOf(acc),
      [key |-> CLOCK_ID, owner |-> "sysvar", is_signer |-> FALSE, data |-> <<>>],
      [key |-> "buffer", owner |-> PROGRAM_ID, is_signer |-> FALSE, data |-> <<>>] }

TxInstructionDatas ==
    { BorshSerialize(0, part) : part \in DOMAIN EncodedInstructions }

InitAccounts ==
    /\ store = EmptyStore
    /\ overlay = Closed
    /\ account \in {InitAccount, init_storage_account(InitAccount, 0, TRUE).account}
    /\ \E n \in 1..3, host \in Hosts :
          \E accounts \in [1..n -> TxAccounts(account)],
             instruction_bytes \in TxInstructionDatas :
             last = [op |-> "instruction", key |-> NoKey,
                     arg |-> [accounts |-> accounts,
                              instruction_data |-> instruction_bytes, host |-> host],
                     res |-> None, ok |-> TRUE, err |-> "", code |-> NoError]
    /\ commits = 0
    /\ committed = NoCommit
    /\ clock = 0

ProcessInstruction ==
    /\ last.op = "instruction"
    /\ \E r \in {process_instruction(last.arg.accounts, last.arg.instruction_data,
                                      account, clock, TRUE, last.arg.host)} :
          /\ account' = r.account
          /\ last' = [last EXCEPT !.op = "process_instruction", !.res = r.stage,
                                  !.ok = r.ok, !.err = r.err, !.code = r.code]
    /\ UNCHANGED <<store, overlay, commits, committed, clock>>

NextAccounts == ProcessInstruction

SpecAccounts == InitAccounts /\ [][NextAccounts]_vars

(* The instruction of this step failed with `variant` before the account    *)
(* data was read: the failure is the one of the checks on the accounts,     *)
(* also on a host whose account data does not deserialize, and the account  *)
(* is as it was.                                                            *)
FailedBeforeRead(variant) ==
    /\ ~last'.ok
    /\ last'.code = InstructionError(variant)
    /\ last'.res = Some("account")
    /\ account' = account

C35_NextAndPrevConsensusState ==
    [][(last'.op \in {"next_consensus_state", "prev_consensus_state"} /\ last' # last)
       => \E c \in {last'.key[2]}, height \in {last'.arg} :
            \E recorded \in {ConsensusHeightsOf(account, clock, c)} :
              \E beyond \in {IF last'.op = "next_consensus_state"
                             THEN {x \in recorded : x > height}
                             ELSE {x \in recorded : x < height}} :
                /\ last'.ok
                /\ beyond = {} => last'.res = None
                /\ beyond # {} =>
                     \E nearest \in beyond :
                        /\ \A x \in beyond :
                              IF last'.op = "next_consensus_state"
                              THEN nearest <= x ELSE x <= nearest
                        /\ IsSome(last'.res)
                        /\ last'.res = ConsensusStateOf(account, clock, c, nearest)
    ]_vars

(* The consensus state after height 1 of a client with three heights, whose *)
(* consensus states at heights 2 and 3 differ.                              *)
C35_Witness ==
    /\ last.op = "next_consensus_state"
    /\ last.arg = 1
    /\ ConsensusHeightsOf(account, clock, last.key[2]) = {1, 2, 3}
    /\ last.res = Some([commitment_root |-> 11, timestamp |-> 21])
    /\ ConsensusStateOf(account, clock, last.key[2], 3)
         = Some([commitment_root |-> 12, timestamp |-> 22])


---------------------------------------------------------------------------
(* SpecProof: verify_membership and verify_non_membership of the host       *)
(* client, called twice on the same proof, root, path and value with two    *)
(* commitment prefixes.                                                     *)

(* CommitmentPrefix: a byte string that is not empty. *)
CommitmentPrefixes == {"ibc", "other"}

ProofPaths == {PortPath(1), ClientStatePath(0)}
ProofValues == {1, 2}
ProofRoots == {NullTree} \cup {(path :> value) : path \in ProofPaths, value \in ProofValues}

(* The proofs a message can carry: existence and non-existence proofs that  *)
(* hash up to any root, for any key.                                        *)
CommitmentProofs ==
    {<<root, path, value>> : root \in ProofRoots, path \in ProofPaths, value \in ProofValues}
    \cup {<<root, path>> : root \in ProofRoots, path \in ProofPaths}

InitProof ==
    /\ store = EmptyStore
    /\ overlay = Closed
    /\ \E prefixes \in CommitmentPrefixes \X CommitmentPrefixes,
          proof \in CommitmentProofs, root \in ProofRoots,
          path \in ProofPaths, value \in ProofValues :
          last = [op |-> "instruction", key |-> path,
                  arg |-> [prefixes |-> prefixes, proof |-> proof, root |-> root,
                           value |-> value],
                  res |-> <<>>, ok |-> TRUE, err |-> ""]
    /\ commits = 0
    /\ committed = NoCommit
    /\ account = InitAccount
    /\ clock = 0

(* client_state.verify_membership(prefix, proof, root, path, value), once   *)
(* with each prefix.                                                        *)
VerifyMembership ==
    /\ last.op = "instruction"
    /\ last' = [last EXCEPT
                  !.op = "verify_membership",
                  !.res = [i \in {1, 2} |->
                             verify_membership(last.arg.prefixes[i], last.arg.proof,
                                               last.arg.root, last.key, last.arg.value)]]
    /\ UNCHANGED <<store, overlay, commits, committed, account, clock>>

(* client_state.verify_non_membership(prefix, proof, root, path), once with *)
(* each prefix.                                                             *)
VerifyNonMembership ==
    /\ last.op = "instruction"
    /\ last' = [last EXCEPT
                  !.op = "verify_non_membership",
                  !.res = [i \in {1, 2} |->
                             verify_non_membership(last.arg.prefixes[i], last.arg.proof,
                                                   last.arg.root, last.key)]]
    /\ UNCHANGED <<store, overlay, commits, committed, account, clock>>

NextProof == VerifyMembership \/ VerifyNonMembership

SpecProof == InitProof /\ [][NextProof]_vars

(* C36: the outcome of verify_membership and of verify_non_membership of    *)
(* the host client does not depend on the commitment prefix: with any two   *)
(* prefixes, the same proof, root, path and value give the same result.     *)
C36_PrefixDoesNotMatter ==
    last.op \in {"verify_membership", "verify_non_membership"}
    => last.res[1] = last.res[2]

(* A proof accepted with two different prefixes. *)
C36_Witness ==
    /\ last.op = "verify_membership"
    /\ last.arg.prefixes = <<"ibc", "other">>
    /\ last.arg.root # NullTree
    /\ last.res = <<TRUE, TRUE>>


---------------------------------------------------------------------------
(* SpecPorts: the storage account under the instructions that can change a  *)
(* port binding: BindPort and ReleasePort, and WriteTxBuffer with the       *)
(* storage account in the place of the buffer account.                      *)

(* IbcInstruction::Admin(WriteTxBuffer) in Reuse mode, signed by payer_key, *)
(* whose buffer account is the storage account: write_to_tx_buffer copies   *)
(* the data over the bytes of the account data at the offset.  The account  *)
(* data is the bincode serialization of the store; the offset is that of    *)
(* the latest value of Port(port_id), a module id (64 hex digits, whatever  *)
(* the key), and the data the module id of the payer.                       *)
WriteTxBufferOnStorage(port_id, payer_key) ==
    /\ commits < MaxInstr
    /\ account.initialized
    /\ PortPath(port_id) \in DOMAIN account.store.value_history
    /\ \E version \in {Max(DOMAIN account.store.value_history[PortPath(port_id)])} :
          /\ IsSome(account.store.value_history[PortPath(port_id)][version])
          /\ account' =
               [account EXCEPT !.store.value_history[PortPath(port_id)][version] =
                   Some(encode(PortPath(port_id), module_id_of_pubkey(payer_key)))]
    /\ last' = [op |-> "write_tx_buffer", key |-> PortPath(port_id), arg |-> payer_key,
                res |-> None, ok |-> TRUE, err |-> "", code |-> NoError]
    /\ commits' = commits + 1
    /\ UNCHANGED <<store, overlay, committed, clock>>

NextPorts ==
    \/ \E synth_root \in BOOLEAN : InitStorageAccount(synth_root)
    \/ \E port_id \in PortIds, payer_key \in Pubkeys, synth_root \in BOOLEAN :
          BindPort(port_id, payer_key, synth_root)
    \/ \E port_id \in PortIds, payer_key \in Pubkeys, synth_root \in BOOLEAN :
          ReleasePort(port_id, payer_key, synth_root)
    \/ \E port_id \in PortIds, payer_key \in Pubkeys :
          WriteTxBufferOnStorage(port_id, payer_key)
    \/ Tick

SpecPorts == Init /\ [][NextPorts]_vars

(* C37: from a successful BindPort(p, M) until the next successful          *)
(* ReleasePort(p, M), Port(p) is M in every committed state: the only step  *)
(* that changes a bound port is a successful ReleasePort of it signed by    *)
(* the module it is bound to, which unbinds it; no instruction signed by    *)
(* another caller rebinds or releases it.  A port that is not bound can be  *)
(* bound by any caller.                                                     *)
C37_PortHeldUntilReleased ==
    [][\A p \in PortIds :
         \E before \in {PortOf(account, clock, p)} :
           /\ (IsSome(before) /\ PortOf(account', clock', p) # before)
              => /\ last'.op = "release_port"
                 /\ last'.ok
                 /\ last'.key = PortPath(p)
                 /\ module_id_of_pubkey(last'.arg) = Unwrap(before)
                 /\ PortOf(account', clock', p) = None
           /\ (/\ ~IsSome(before)
               /\ account.initialized
               /\ commits' = commits + 1
               /\ last'.op = "bind_port"
               /\ last'.key = PortPath(p))
              => last'.res # Some("handler")
    ]_vars


(* C38: after any sequence of successful CreateClient and UpdateClient      *)
(* instructions on a host client c, the latest height of the client state   *)
(* of c is the maximum of ConsensusHeights(c) and a consensus state is      *)
(* stored at that height; the latest height strictly increases with every   *)
(* successful UpdateClient.                                                 *)
C38_LatestHeightIsMaxConsensusHeight ==
    [][\A c \in ClientIds :
         \E after \in {ClientStateOf(account', clock', c)} :
           /\ IsSome(after)
              => \E recorded \in {ConsensusHeightsOf(account', clock', c)} :
                   /\ latest_height(Unwrap(after)) \in recorded
                   /\ \A x \in recorded : x <= latest_height(Unwrap(after))
                   /\ IsSome(ConsensusStateOf(account', clock', c,
                                              latest_height(Unwrap(after))))
           /\ (/\ commits' = commits + 1
               /\ last'.op = "update_client"
               /\ last'.ok
               /\ last'.key = ClientStatePath(c))
              => /\ IsSome(ClientStateOf(account, clock, c))
                 /\ IsSome(after)
                 /\ latest_height(Unwrap(after))
                      > latest_height(Unwrap(ClientStateOf(account, clock, c)))
    ]_vars

(* A client created at height 1 and updated twice, to heights 2 and 3.      *)
C38_Witness ==
    /\ last.op = "update_client"
    /\ last.ok
    /\ ConsensusHeightsOf(account, clock, last.key[2]) = {1, 2, 3}
    /\ IsSome(ClientStateOf(account, clock, last.key[2]))
    /\ latest_height(Unwrap(ClientStateOf(account, clock, last.key[2]))) = 3



----------------------------------------------------------------------------
(* SpecSplit: the CLI builds the instruction data of a transaction kind,    *)
(* splits it across messages and submits them in order; the program parses  *)
(* the instruction of the last message.  The buffer keys are fresh random   *)
(* keys, written "buffer1", "buffer2", ...; a buffer message is taken to    *)
(* run as the CLI means it to: the account is created zeroed with           *)
(* MAX_SINGLE_INSTRUCTION_SIZE bytes and the shared memory program copies   *)
(* the bytes after the 8-byte offset into it.                               *)

MAX_SINGLE_INSTRUCTION_SIZE == 8   \* 1000 in the source; scaled with the payloads

BufferPubkeys == <<"buffer1", "buffer2", "buffer3">>

(* TxKind::instruction_data: the Any bytes as the last part of an           *)
(* IbcContractInstruction with no extra accounts.                           *)
TxKind_instruction_data(any_bytes) == BorshSerialize(0, any_bytes)

(* TxKind::accounts of a Channel, Client, Connection or Port transaction *)
TxKind_accounts(payer_pubkey) ==
    << [key |-> payer_pubkey, owner |-> "system", is_signer |-> TRUE, data |-> <<>>],
       [key |-> STORAGE_KEY, owner |-> PROGRAM_ID, is_signer |-> FALSE, data |-> <<1>>],
       [key |-> CLOCK_ID, owner |-> "sysvar", is_signer |-> FALSE, data |-> <<2>>] >>

(* The while loop of split_ibc_instruction_across_txs: one message per      *)
(* MAX_SINGLE_INSTRUCTION_SIZE bytes split off the front, then the main     *)
(* message with what is left and the buffer accounts before the accounts    *)
(* of the kind.                                                             *)
RECURSIVE split_loop(_, _, _)
split_loop(ibc_instruction_data, messages, payer_pubkey) ==
    IF Len(ibc_instruction_data) > MAX_SINGLE_INSTRUCTION_SIZE
    THEN LET split_instruction_data ==
                 SubSeq(ibc_instruction_data, 1, MAX_SINGLE_INSTRUCTION_SIZE)
             new_ibc_instruction_data ==
                 SubSeq(ibc_instruction_data, MAX_SINGLE_INSTRUCTION_SIZE + 1,
                        Len(ibc_instruction_data))
             to_pubkey == BufferPubkeys[Len(messages) + 1]
         IN  split_loop(new_ibc_instruction_data,
                        Append(messages,
                               [program |-> "shared_memory",
                                to_pubkey |-> to_pubkey,
                                space |-> MAX_SINGLE_INSTRUCTION_SIZE,
                                owner |-> payer_pubkey,
                                instruction_data |->
                                    <<0, 0, 0, 0, 0, 0, 0, 0>> \o split_instruction_data]),
                        payer_pubkey)
    ELSE Append(messages,
                [program |-> PROGRAM_ID,
                 instruction_data |-> ibc_instruction_data,
                 buffer_pubkeys |-> [i \in 1..Len(messages) |-> messages[i].to_pubkey]])

split_ibc_instruction_across_txs(ibc_instruction_data, payer_pubkey) ==
    split_loop(ibc_instruction_data, <<>>, payer_pubkey)

(* system_instruction::create_account followed by the shared memory         *)
(* program: the first 8 bytes of the instruction are the little-endian      *)
(* offset, the rest is copied into the account data at that offset.         *)
shared_memory_write(space, shared_memory_instruction_data) ==
    LET offset == shared_memory_instruction_data[1] + Byte * shared_memory_instruction_data[2]
        bytes == SubSeq(shared_memory_instruction_data, 9, Len(shared_memory_instruction_data))
    IN  [i \in 1..space |->
            IF i > offset /\ i <= offset + Len(bytes) THEN bytes[i - offset] ELSE 0]

(* The Any payloads of the CLI: the encodings of the instructions and       *)
(* other byte strings, shorter and longer than the limit.                   *)
AnyPayloads ==
    UNION { [1..n -> {1, 2, 3}] : n \in 0..3 }
    \cup { <<1, 2, 3, 1, 2, 3, 1, 2, 3, 1, 2>>, <<1, 2, 0, 0, 2, 0, 0, 0, 2, 1>> }

InitSplit ==
    /\ store = EmptyStore
    /\ overlay = Closed
    /\ \E any_bytes \in AnyPayloads :
          last = [op |-> "instruction", key |-> NoKey,
                  arg |-> [payload |-> any_bytes, payer_pubkey |-> "payer"],
                  res |-> None, ok |-> TRUE, err |-> ""]
    /\ commits = 0
    /\ committed = NoCommit
    /\ account = InitAccount
    /\ clock = 0

(* tx::run up to the submission loop *)
SplitIbcInstructionAcrossTxs ==
    /\ last.op = "instruction"
    /\ \E messages \in {split_ibc_instruction_across_txs(
                            TxKind_instruction_data(last.arg.payload),
                            last.arg.payer_pubkey)} :
          last' = [last EXCEPT !.op = "split",
                               !.res = [messages |-> messages, submitted |-> 0,
                                        buffers |-> <<>>, parsed |-> None]]
    /\ UNCHANGED <<store, overlay, commits, committed, account, clock>>

(* One turn of the submission loop of tx::run: a buffer message leaves a    *)
(* buffer account, the main message is parsed by the program with the       *)
(* buffer accounts before the accounts of the kind.                         *)
SubmitMessage ==
    /\ last.op = "split"
    /\ last.res.submitted < Len(last.res.messages)
    /\ \E message \in {last.res.messages[last.res.submitted + 1]} :
          IF message.program = "shared_memory"
          THEN last' = [last EXCEPT
                   !.res.submitted = @ + 1,
                   !.res.buffers =
                       Append(@, [key |-> message.to_pubkey, owner |-> message.owner,
                                  is_signer |-> FALSE,
                                  data |-> shared_memory_write(message.space,
                                                               message.instruction_data)])]
          ELSE \E parsed \in {parse_instruction(
                                  last.res.buffers \o TxKind_accounts(last.arg.payer_pubkey),
                                  message.instruction_data)} :
                 last' = [last EXCEPT !.op = "submitted",
                                      !.res.submitted = @ + 1,
                                      !.res.parsed = Some(parsed),
                                      !.ok = parsed.ok, !.err = parsed.err]
    /\ UNCHANGED <<store, overlay, commits, committed, account, clock>>

NextSplit == SplitIbcInstructionAcrossTxs \/ SubmitMessage

SpecSplit == InitSplit /\ [][NextSplit]_vars

(* C39: for any instruction payload, including one longer than the          *)
(* single-instruction limit, the messages built by                          *)
(* split_ibc_instruction_across_txs, executed in order, make                *)
(* parse_instruction reassemble exactly the original Any payload and        *)
(* dispatch it.                                                             *)
C39_SplitIsReassembled ==
    (last.op = "submitted" /\ last.arg.payload \in DOMAIN EncodedInstructions)
        => /\ Unwrap(last.res.parsed).ok
           /\ Unwrap(last.res.parsed).ibc_instruction_data = last.arg.payload
           /\ Unwrap(last.res.parsed).ibc_instruction
                = EncodedInstructions[last.arg.payload]

(* The same for the payloads that fit into one instruction. *)
C39_UnsplitIsParsed ==
    (/\ last.op = "submitted"
     /\ last.arg.payload \in DOMAIN EncodedInstructions
     /\ Len(last.res.messages) = 1)
        => /\ Unwrap(last.res.parsed).ok
           /\ Unwrap(last.res.parsed).ibc_instruction_data = last.arg.payload



----------------------------------------------------------------------------
(* SpecModules: the storage account under InitStorageAccount, BindPort and  *)
(* ReleasePort, with module_id_of_pubkey and pubkey_of_module_id called on  *)
(* keys and strings of every shape.                                         *)

(* Keys whose bytes have digits of every kind. *)
KeySamples == {0, 1, 2, 10, 171, 256, 43981, 65535}

(* Strings a ModuleId can hold: hex digits of either case, an odd number    *)
(* of digits, other characters, too few and too many digits.                *)
ModuleIdSamples ==
    { <<"a", "b", "c", "d">>, <<"A", "B", "c", "D">>, <<"0", "0", "1">>,
      <<"0", "0", "0", "g">>, <<"0", "1">>, <<"0", "0", "0", "0", "0", "1">>, <<>> }

(* module_id_of_pubkey(&pubkey) *)
ModuleIdOfPubkey(pubkey) ==
    /\ last' = [op |-> "module_id_of_pubkey", key |-> NoKey, arg |-> pubkey,
                res |-> Some(module_id_of_pubkey(pubkey)), ok |-> TRUE, err |-> "",
                code |-> NoError]
    /\ UNCHANGED <<store, overlay, commits, committed, account, clock>>

(* pubkey_of_module_id(&module_id) *)
PubkeyOfModuleId(module_id) ==
    /\ \E r \in {pubkey_of_module_id(module_id)} :
          last' = [op |-> "pubkey_of_module_id", key |-> NoKey, arg |-> module_id,
                   res |-> IF r.ok THEN Some(r.pubkey) ELSE None,
                   ok |-> r.ok, err |-> r.err, code |-> NoError]
    /\ UNCHANGED <<store, overlay, commits, committed, account, clock>>

NextModules ==
    \/ \E synth_root \in BOOLEAN : InitStorageAccount(synth_root)
    \/ \E port_id \in PortIds, payer_key \in Pubkeys, synth_root \in BOOLEAN :
          BindPort(port_id, payer_key, synth_root)
    \/ \E port_id \in PortIds, payer_key \in Pubkeys, synth_root \in BOOLEAN :
          ReleasePort(port_id, payer_key, synth_root)
    \/ \E pubkey \in KeySamples : ModuleIdOfPubkey(pubkey)
    \/ \E module_id \in ModuleIdSamples \cup AllModulesOf(account, clock) :
          PubkeyOfModuleId(module_id)
    \/ Tick

SpecModules == Init /\ [][NextModules]_vars

(* The string is the lowercase hex encoding of the bytes: two digits of     *)
(* 0-9a-f for every byte, the high nibble first.                            *)
IsLowerHexOf(digits, bytes) ==
    /\ Len(digits) = 2 * Len(bytes)
    /\ \A i \in 1..Len(digits) : \E v \in 1..16 : HexDigits[v] = digits[i]
    /\ \A i \in 1..Len(bytes) :
          16 * Unwrap(hex_val(digits[2 * i - 1])) + Unwrap(hex_val(digits[2 * i]))
            = bytes[i]

(* C40: module_id_of_pubkey maps a public key to the lowercase hex encoding *)
(* of its bytes and pubkey_of_module_id inverts it; every module id that    *)
(* BindPort adds to AllModules decodes back to the binding caller's key,    *)
(* and the construction of the handler never fails on an AllModules set     *)
(* produced by BindPort and ReleasePort.                                    *)
C40_ModuleIdsDecodeToKeys ==
    /\ last.op = "module_id_of_pubkey"
          => /\ IsLowerHexOf(Unwrap(last.res), as_ref(last.arg))
             /\ pubkey_of_module_id(Unwrap(last.res))
                  = [ok |-> TRUE, err |-> "", pubkey |-> last.arg]
    /\ (last.op = "bind_port" /\ last.ok)
          => \E bound \in {PortOf(account, clock, last.key[2])} :
               /\ IsSome(bound)
               /\ Unwrap(bound) \in AllModulesOf(account, clock)
               /\ pubkey_of_module_id(Unwrap(bound))
                    = [ok |-> TRUE, err |-> "", pubkey |-> last.arg]
    /\ \A module_id \in AllModulesOf(account, clock) :
          \E r \in {pubkey_of_module_id(module_id)} :
             r.ok /\ r.pubkey \in Pubkeys /\ module_id_of_pubkey(r.pubkey) = module_id
    /\ IbcHandler_new(account.store, account.metadata, clock).ok
    /\ last.op \in {"bind_port", "release_port"} => last.res # Some("new")

(* The second of two keys has bound a port: its handler was built from an   *)
(* AllModules set that held the module id of the first.                     *)
C40_Witness ==
    /\ last.op = "bind_port"
    /\ last.ok
    /\ AllModulesOf(account, clock)
         = {module_id_of_pubkey(pubkey) : pubkey \in Pubkeys}
    /\ pubkey_of_module_id(Unwrap(PortOf(account, clock, last.key[2]))).pubkey = last.arg

=============================================================================
